---- MODULE Spec2Model ----
(***************************************************************************)
(* State-machine model of the checkers TCP server (src/Server).            *)
(*                                                                         *)
(* The server state is the two registries of server.h (clients[], rooms[], *)
(* client_count, room_count), the descriptors the server has closed, the   *)
(* position of every handler thread (client_handler) and of the heartbeat  *)
(* thread, and the wall clock read through time(NULL).  Every function of  *)
(* server.c is an operator that maps a registry record to the registry     *)
(* record the C function leaves behind; the actions apply them.            *)
(***************************************************************************)
EXTENDS Integers, Sequences, FiniteSets, TLC

----------------------------------------------------------------------------
(* Bounds of the model.                                                    *)

\* size of Server.clients[] (100 in server.h:15)
MAX_CLIENTS == 3
\* size of Server.rooms[] (50 in server.h:16)
MAX_ROOMS == 2
\* connections accept() returns during one run; descriptors are 1..MaxConns
MaxConns == 3
\* frames one recv() may deliver at most
MaxBatch == 2
\* events from outside (a frame, a failed recv(), an overflow, a sleep of the
\* heartbeat thread) during one run, after those of the opening
MaxEvents == 2
\* pieces of each colour on the initial board (12 in game.c)
PiecesPerSide == 1

PlayerNames == {"a", "b"}
RoomNames == {"r1", "r2"}

----------------------------------------------------------------------------
(* Program constants.                                                      *)

PONG_TIMEOUT_SEC == 3
LONG_DISCONNECT_THRESHOLD_SEC == 80
MAX_MISSED_PONGS == 3
MAX_VIOLATIONS == 1
VIOLATION_RESET_TIME == 60
PING_INTERVAL_SEC == 5
PREFIX == "DENTCP"

OP_LOGIN == 1
OP_LOGIN_OK == 2
OP_LOGIN_FAIL == 3
OP_CREATE_ROOM == 4
OP_JOIN_ROOM == 5
OP_ROOM_JOINED == 6
OP_ROOM_FULL == 7
OP_ROOM_FAIL == 8
OP_GAME_START == 9
OP_MOVE == 10
OP_INVALID_MOVE == 11
OP_GAME_STATE == 12
OP_GAME_END == 13
OP_LEAVE_ROOM == 14
OP_ROOM_LEFT == 15
OP_PING == 16
OP_PONG == 17
OP_LIST_ROOMS == 18
OP_ROOMS_LIST == 19
OP_ROOM_CREATED == 20
OP_MULTI_MOVE == 21
OP_PLAYER_DISCONNECTED == 22
OP_PLAYER_RECONNECTING == 23
OP_PLAYER_RECONNECTED == 24
OP_RECONNECT_REQUEST == 25
OP_RECONNECT_OK == 26
OP_RECONNECT_FAIL == 27
OP_GAME_PAUSED == 28
OP_GAME_RESUMED == 29
OP_ERROR == 500

\* is_valid_opcode: the opcodes parse_message lets through
is_valid_opcode(op) == (op >= OP_LOGIN /\ op <= OP_GAME_RESUMED) \/ op = OP_ERROR

ValidOpcodes == {op \in 0..OP_ERROR : is_valid_opcode(op)}

ClientGameStates == {"NOT_LOGGED_IN", "IN_LOBBY", "IN_ROOM_WAITING", "IN_GAME"}


VARIABLES
    clients,        \* Server.clients[]: slot -> Client
    rooms,          \* Server.rooms[]: slot -> Room
    client_count,   \* Server.client_count
    room_count,     \* Server.room_count
    closes,         \* descriptor -> how often the server closed it (capped at 2)
    out,            \* the frames the last step sent, in order
    thr,            \* descriptor -> handler thread [pc, more]; inside
                    \* join_room also [ci, data, gs], inside a move
                    \* [ri, data, op, gs]
    hb,             \* the heartbeat thread [pc, actions]
    events,         \* how many events from outside the run has seen
    now,            \* time(NULL)
    nextSock,       \* the descriptor the next accept() returns
    crashed,        \* the process died on a NULL dereference
    ev,             \* what the last step did with a frame (history variable)
    viol,           \* the descriptors whose peer committed a violation (history)
    opening,        \* what is left of the opening of the run
    locks,          \* the registry locks the last step took: [took, nest]
    wire            \* the frame the codec works on: [pc, op, data, buffer, msg]

vars == <<clients, rooms, client_count, room_count, closes, out, thr, hb,
          events, now, nextSock, crashed, ev, viol, opening, locks, wire>>

CSlots == 0..(MAX_CLIENTS - 1)
RSlots == 0..(MAX_ROOMS - 1)
Socks == 1..MaxConns

\* a Client after memset(..., 0, ...)
ZeroClient ==
    [socket |-> 0, client_id |-> "", active |-> FALSE, logged_in |-> FALSE,
     current_room |-> "", state |-> "CONNECTED", game_state |-> "NOT_LOGGED_IN",
     last_pong_time |-> 0, disconnect_time |-> 0, missed_pongs |-> 0,
     waiting_for_pong |-> FALSE,
     invalid_message_count |-> 0, unknown_opcode_count |-> 0,
     last_violation_time |-> 0]

\* a Game after memset: the board is kept as the number of pieces per colour
ZeroGame ==
    [player1 |-> "", player2 |-> "", current_turn |-> "", game_active |-> FALSE,
     white_pieces |-> 0, black_pieces |-> 0]

\* a Room after memset(room, 0, sizeof(Room))
ZeroRoom ==
    [name |-> "", owner |-> "", player1 |-> "", player2 |-> "",
     players_count |-> 0, game |-> ZeroGame, game_started |-> FALSE,
     state |-> "WAITING", pause_start_time |-> 0, disconnected_player |-> "",
     waiting_for_reconnect |-> FALSE]

\* the registries as one value: what the C functions read and write
Registry ==
    [clients |-> clients, rooms |-> rooms, client_count |-> client_count,
     room_count |-> room_count, closes |-> closes, out |-> <<>>,
     blocked |-> FALSE, crashed |-> FALSE,
     held |-> {}, took |-> {}, nest |-> {}]

\* pthread_mutex_lock of a registry lock m by the running thread: the locks it
\* already holds are recorded together with m
Lock(s, m) ==
    [s EXCEPT !.nest = @ \cup {<<h, m>> : h \in s.held},
              !.took = @ \cup {m},
              !.held = @ \cup {m}]

\* pthread_mutex_unlock of a registry lock m
Unlock(s, m) == [s EXCEPT !.held = @ \ {m}]

\* the running thread locks m in s, computes res while it holds m without
\* locking anything else, and unlocks m
Region(s, m, res) ==
    [res EXCEPT !.nest = @ \cup {<<h, m>> : h \in s.held},
                !.took = @ \cup {m}]

\* Region for a function that returns [s, r]
RegionR(s, m, res) == [res EXCEPT !.s = Region(s, m, @)]

\* the running thread locks m, only reads, and unlocks m
Took(s, m) == Region(s, m, s)

NoLocks == [took |-> {}, nest |-> {}]

\* the heartbeat thread deadlocked on rooms_mutex while holding it
RoomsMutexHeld == hb.pc = "deadlocked"

\* a thread that waits for rooms_mutex while the heartbeat holds it for ever
Block(s) == [s EXCEPT !.blocked = TRUE]

FirstIdx(S) == IF S = {} THEN -1 ELSE CHOOSE i \in S : \A j \in S : i <= j

----------------------------------------------------------------------------
(* client_state_machine.c                                                  *)

\* a whitelist that also lets a client in the lobby send moves
get_allowed_operations_lax(state) ==
    CASE state = "NOT_LOGGED_IN" ->
            {OP_LOGIN, OP_PONG, OP_PING, OP_RECONNECT_REQUEST, OP_ERROR}
      [] state = "IN_LOBBY" ->
            {OP_CREATE_ROOM, OP_JOIN_ROOM, OP_LIST_ROOMS, OP_PONG, OP_PING,
             OP_RECONNECT_REQUEST, OP_ERROR, OP_MOVE}
      [] state = "IN_ROOM_WAITING" ->
            {OP_LEAVE_ROOM, OP_JOIN_ROOM, OP_LIST_ROOMS, OP_PONG, OP_PING,
             OP_RECONNECT_REQUEST, OP_ERROR}
      [] state = "IN_GAME" ->
            {OP_MOVE, OP_MULTI_MOVE, OP_LIST_ROOMS, OP_LEAVE_ROOM, OP_PONG,
             OP_PING, OP_RECONNECT_REQUEST, OP_ERROR}
      [] OTHER -> {}


get_allowed_operations(state) ==
    CASE state = "NOT_LOGGED_IN" ->
            {OP_LOGIN, OP_PONG, OP_PING, OP_RECONNECT_REQUEST, OP_ERROR}
      [] state = "IN_LOBBY" ->
            {OP_CREATE_ROOM, OP_JOIN_ROOM, OP_LIST_ROOMS, OP_PONG, OP_PING,
             OP_RECONNECT_REQUEST, OP_ERROR}
      [] state = "IN_ROOM_WAITING" ->
            {OP_LEAVE_ROOM, OP_JOIN_ROOM, OP_LIST_ROOMS, OP_PONG, OP_PING,
             OP_RECONNECT_REQUEST, OP_ERROR}
      [] state = "IN_GAME" ->
            {OP_MOVE, OP_MULTI_MOVE, OP_LIST_ROOMS, OP_LEAVE_ROOM, OP_PONG,
             OP_PING, OP_RECONNECT_REQUEST, OP_ERROR}
      [] OTHER -> {}

is_operation_allowed(state, op) == op \in get_allowed_operations(state)

transition_client_state(s, ci, new_state) ==
    [s EXCEPT !.clients[ci].game_state = new_state]

----------------------------------------------------------------------------
(* server.c: sockets and lookups                                           *)

\* send_message: a frame reaches the peer only over an open descriptor
send_message(s, socket, op, data) ==
    IF socket \in Socks /\ s.closes[socket] = 0
    THEN [s EXCEPT !.out = Append(@, [to |-> socket, op |-> op, data |-> data])]
    ELSE s

\* close(fd)
close_socket(s, socket) ==
    IF socket \in Socks
    THEN [s EXCEPT !.closes[socket] = IF @ < 2 THEN @ + 1 ELSE @]
    ELSE s

find_client(s, client_id) ==
    FirstIdx({i \in CSlots : s.clients[i].active /\ s.clients[i].client_id = client_id})

RoomInUse(room) == room.players_count > 0 \/ room.owner # ""

find_room(s, room_name) ==
    FirstIdx({i \in RSlots : RoomInUse(s.rooms[i]) /\ s.rooms[i].name = room_name})

\* the slot a handler thread finds for its descriptor (active slots only)
SlotOfSocket(s, socket) ==
    FirstIdx({i \in CSlots : s.clients[i].active /\ s.clients[i].socket = socket})

\* the same lookup without the test of `active`
AnySlotOfSocket(s, socket) ==
    FirstIdx({i \in CSlots : s.clients[i].socket = socket})

----------------------------------------------------------------------------
(* server.c: heartbeat bookkeeping of one client                           *)

client_init_heartbeat(c) ==
    [c EXCEPT !.state = "CONNECTED", !.last_pong_time = now,
              !.disconnect_time = 0, !.missed_pongs = 0,
              !.waiting_for_pong = FALSE]

\* a reconnect that keeps the count of missed PONGs
client_mark_reconnected_stale(c) ==
    [c EXCEPT !.state = "CONNECTED", !.disconnect_time = 0]

client_mark_reconnected(c) ==
    [c EXCEPT !.state = "CONNECTED", !.disconnect_time = 0, !.missed_pongs = 0]

client_mark_timeout(c) == [c EXCEPT !.state = "TIMEOUT"]

client_get_disconnect_duration(c) ==
    IF c.disconnect_time = 0 THEN 0 ELSE now - c.disconnect_time

\* client_mark_disconnected closes the descriptor, so it works on the registry
client_mark_disconnected(s, ci) ==
    LET c == s.clients[ci] IN
    IF c.state = "CONNECTED"
    THEN LET s1 == [s EXCEPT !.clients[ci].state = "DISCONNECTED",
                             !.clients[ci].disconnect_time = now]
         IN IF c.socket > 0
            THEN [close_socket(s1, c.socket) EXCEPT !.clients[ci].socket = -1]
            ELSE s1
    ELSE s

client_update_pong(s, ci) ==
    LET c1 == [s.clients[ci] EXCEPT !.last_pong_time = now, !.missed_pongs = 0,
                                    !.waiting_for_pong = FALSE]
        c2 == IF c1.state = "RECONNECTING" \/ c1.state = "DISCONNECTED"
              THEN client_mark_reconnected(c1) ELSE c1
    IN [s EXCEPT !.clients[ci] = c2]

\* a timeout check that gives up one missed PONG early
client_check_timeout_early(s, ci) ==
    LET c == s.clients[ci] IN
    IF c.state = "REMOVED" \/ c.state = "TIMEOUT"
    THEN [s |-> s, r |-> TRUE]
    ELSE
      LET time_since_pong == now - c.last_pong_time
          missed == c.waiting_for_pong /\ time_since_pong > PONG_TIMEOUT_SEC
          s1 == IF missed
                THEN [s EXCEPT !.clients[ci].missed_pongs = @ + 1,
                               !.clients[ci].waiting_for_pong = FALSE]
                ELSE s
          s2 == IF missed /\ s1.clients[ci].missed_pongs >= MAX_MISSED_PONGS - 1
                          /\ s1.clients[ci].state # "DISCONNECTED"
                THEN client_mark_disconnected(s1, ci)
                ELSE s1
          c2 == s2.clients[ci]
      IN IF c2.state = "DISCONNECTED"
            /\ client_get_disconnect_duration(c2) > LONG_DISCONNECT_THRESHOLD_SEC
         THEN [s |-> [s2 EXCEPT !.clients[ci] = client_mark_timeout(c2)], r |-> TRUE]
         ELSE [s |-> s2, r |-> FALSE]

\* client_check_timeout: [s |-> registry afterwards, r |-> should_remove]
client_check_timeout(s, ci) ==
    LET c == s.clients[ci] IN
    IF c.state = "REMOVED" \/ c.state = "TIMEOUT"
    THEN [s |-> s, r |-> TRUE]
    ELSE
      LET time_since_pong == now - c.last_pong_time
          missed == c.waiting_for_pong /\ time_since_pong > PONG_TIMEOUT_SEC
          s1 == IF missed
                THEN [s EXCEPT !.clients[ci].missed_pongs = @ + 1,
                               !.clients[ci].waiting_for_pong = FALSE]
                ELSE s
          s2 == IF missed /\ s1.clients[ci].missed_pongs >= MAX_MISSED_PONGS
                          /\ s1.clients[ci].state # "DISCONNECTED"
                THEN client_mark_disconnected(s1, ci)
                ELSE s1
          c2 == s2.clients[ci]
      IN IF c2.state = "DISCONNECTED"
            /\ client_get_disconnect_duration(c2) > LONG_DISCONNECT_THRESHOLD_SEC
         THEN [s |-> [s2 EXCEPT !.clients[ci] = client_mark_timeout(c2)], r |-> TRUE]
         ELSE [s |-> s2, r |-> FALSE]

----------------------------------------------------------------------------
(* server.c: room state                                                    *)

room_init_state(room) ==
    [room EXCEPT !.state = "WAITING", !.pause_start_time = 0,
                 !.disconnected_player = "", !.waiting_for_reconnect = FALSE]

\* a pause that does not record who is awaited
room_pause_game_anon(room, player_name) ==
    IF room.state # "ACTIVE" THEN room
    ELSE [room EXCEPT !.state = "PAUSED", !.pause_start_time = now,
                      !.waiting_for_reconnect = TRUE]

room_pause_game(room, player_name) ==
    IF room.state # "ACTIVE" THEN room
    ELSE [room EXCEPT !.state = "PAUSED", !.pause_start_time = now,
                      !.disconnected_player = player_name,
                      !.waiting_for_reconnect = TRUE]

\* a resume that forgets to clear the name of the awaited player
room_resume_game_keep(room) ==
    IF room.state # "PAUSED" THEN room
    ELSE [room EXCEPT !.state = "ACTIVE", !.pause_start_time = 0,
                      !.waiting_for_reconnect = FALSE]

room_resume_game(room) ==
    IF room.state # "PAUSED" THEN room
    ELSE [room EXCEPT !.state = "ACTIVE", !.pause_start_time = 0,
                      !.disconnected_player = "",
                      !.waiting_for_reconnect = FALSE]

room_finish_game(room) ==
    [room EXCEPT !.state = "FINISHED", !.waiting_for_reconnect = FALSE]

room_get_pause_duration(room) ==
    IF room.pause_start_time = 0 THEN 0 ELSE now - room.pause_start_time

room_should_timeout(room, timeout_seconds) ==
    IF room.state # "PAUSED" THEN FALSE
    ELSE room_get_pause_duration(room) >= timeout_seconds

----------------------------------------------------------------------------
(* game.c.  The 8x8 board is kept as the number of pieces of each colour;  *)
(* the geometry of a step (empty target, diagonal, own piece, jump over an *)
(* opposing piece) is the kind of step the peer sends: "step", "capture"   *)
(* or "illegal".  player1 plays white.                                     *)

StepKinds == {"step", "capture", "illegal"}

\* a game that is set up but not marked as running
init_game_idle(player1, player2) ==
    [player1 |-> player1, player2 |-> player2, current_turn |-> player1,
     game_active |-> FALSE, white_pieces |-> PiecesPerSide,
     black_pieces |-> PiecesPerSide]


init_game(player1, player2) ==
    [player1 |-> player1, player2 |-> player2, current_turn |-> player1,
     game_active |-> TRUE, white_pieces |-> PiecesPerSide,
     black_pieces |-> PiecesPerSide]

change_turn(game) ==
    IF game.current_turn = game.player1
    THEN [game EXCEPT !.current_turn = game.player2]
    ELSE [game EXCEPT !.current_turn = game.player1]

\* validate_single_step: the piece on the source square belongs to `player`
validate_single_step(game, kind, player) ==
    /\ kind \in {"step", "capture"}
    /\ IF player = game.player1 THEN game.white_pieces > 0
                                ELSE game.black_pieces > 0
    /\ kind = "capture" =>
          IF player = game.player1 THEN game.black_pieces > 0
                                   ELSE game.white_pieces > 0

\* a validate_move that does not look at whose turn it is
validate_move_anyone(game, kind, player) ==
    validate_single_step(game, kind, player)

validate_move(game, kind, player) ==
    IF game.current_turn # player THEN FALSE
    ELSE validate_single_step(game, kind, player)

\* apply_move: a capture removes the piece that was jumped over
apply_move(game, kind) ==
    IF kind # "capture" THEN game
    ELSE IF game.current_turn = game.player1
         THEN [game EXCEPT !.black_pieces = @ - 1]
         ELSE [game EXCEPT !.white_pieces = @ - 1]

\* check_game_over: [over, winner]
check_game_over(game) ==
    IF game.white_pieces = 0 THEN [over |-> TRUE, winner |-> game.player2]
    ELSE IF game.black_pieces = 0 THEN [over |-> TRUE, winner |-> game.player1]
    ELSE [over |-> FALSE, winner |-> ""]

----------------------------------------------------------------------------
(* server.c: clients and rooms                                             *)

\* add_client: [s, r |-> slot or -1]
add_client(s, socket) ==
    RegionR(s, "clients_mutex",
        IF s.client_count >= MAX_CLIENTS THEN [s |-> s, r |-> -1]
        ELSE LET i == FirstIdx({k \in CSlots : ~s.clients[k].active}) IN
             IF i = -1 THEN [s |-> s, r |-> -1]
             ELSE LET c0 == [s.clients[i] EXCEPT
                                !.socket = socket, !.active = TRUE,
                                !.logged_in = FALSE, !.client_id = "",
                                !.current_room = ""]
                      c1 == [client_init_heartbeat(c0) EXCEPT
                                !.game_state = "NOT_LOGGED_IN",
                                !.invalid_message_count = 0,
                                !.unknown_opcode_count = 0,
                                !.last_violation_time = 0]
                  IN [s |-> [s EXCEPT !.clients[i] = c1, !.client_count = @ + 1],
                      r |-> i])

\* a create_room that also seats the creator in the new room
create_room_seated(s, room_name, creator) ==
    RegionR(s, "rooms_mutex",
        IF RoomsMutexHeld THEN [s |-> Block(s), r |-> -1]
        ELSE IF find_room(s, room_name) # -1 THEN [s |-> s, r |-> -1]
        ELSE LET i == FirstIdx({k \in RSlots : ~RoomInUse(s.rooms[k])}) IN
             IF i = -1 THEN [s |-> s, r |-> -1]
             ELSE LET r0 == [s.rooms[i] EXCEPT
                                !.name = room_name, !.owner = creator,
                                !.player1 = creator, !.player2 = "",
                                !.players_count = 1, !.game_started = FALSE]
                  IN [s |-> [s EXCEPT !.rooms[i] = room_init_state(r0),
                                      !.room_count = @ + 1],
                      r |-> i])

\* create_room: [s, r |-> slot or -1]
create_room(s, room_name, creator) ==
    RegionR(s, "rooms_mutex",
        IF RoomsMutexHeld THEN [s |-> Block(s), r |-> -1]
        ELSE IF find_room(s, room_name) # -1 THEN [s |-> s, r |-> -1]
        ELSE LET i == FirstIdx({k \in RSlots : ~RoomInUse(s.rooms[k])}) IN
             IF i = -1 THEN [s |-> s, r |-> -1]
             ELSE LET r0 == [s.rooms[i] EXCEPT
                                !.name = room_name, !.owner = creator,
                                !.player1 = "", !.player2 = "",
                                !.players_count = 0, !.game_started = FALSE]
                  IN [s |-> [s EXCEPT !.rooms[i] = room_init_state(r0),
                                      !.room_count = @ + 1],
                      r |-> i])

\* a join_room that keeps rooms_mutex while it looks the player up under
\* clients_mutex
join_room_check_nested(s, room_name, player_name) ==
    IF RoomsMutexHeld THEN [s |-> Block(Took(s, "rooms_mutex")), r |-> 1]
    ELSE
    LET ri == find_room(s, room_name) IN
    IF ri = -1 THEN [s |-> Took(s, "rooms_mutex"), r |-> -1]
    ELSE IF s.rooms[ri].players_count >= 2
         THEN [s |-> Took(s, "rooms_mutex"), r |-> -2]
    ELSE IF s.rooms[ri].player1 = player_name \/ s.rooms[ri].player2 = player_name
         THEN [s |-> Took(s, "rooms_mutex"), r |-> -3]
    ELSE LET ci == find_client(s, player_name) IN
    [s |-> Unlock(Took(Lock(s, "rooms_mutex"), "clients_mutex"), "rooms_mutex"),
     r |-> IF ci = -1 THEN -5
           ELSE IF s.clients[ci].current_room # "" THEN -4
           ELSE 0]

\* join_room up to the second pthread_mutex_lock(&server->rooms_mutex): the
\* checks made under rooms_mutex and then under clients_mutex, both released
\* again; [s, r |-> 0 or the negative error code, 1 when the thread waits for
\* ever]
join_room_check(s, room_name, player_name) ==
    IF RoomsMutexHeld THEN [s |-> Block(Took(s, "rooms_mutex")), r |-> 1]
    ELSE
    LET ri == find_room(s, room_name) IN
    IF ri = -1 THEN [s |-> Took(s, "rooms_mutex"), r |-> -1]
    ELSE IF s.rooms[ri].players_count >= 2
         THEN [s |-> Took(s, "rooms_mutex"), r |-> -2]
    ELSE IF s.rooms[ri].player1 = player_name \/ s.rooms[ri].player2 = player_name
         THEN [s |-> Took(s, "rooms_mutex"), r |-> -3]
    ELSE LET ci == find_client(s, player_name) IN
    [s |-> Took(Took(s, "rooms_mutex"), "clients_mutex"),
     r |-> IF ci = -1 THEN -5
           ELSE IF s.clients[ci].current_room # "" THEN -4
           ELSE 0]

\* a join_room that starts the game with the first player
join_room_add_eager(s, room_name, player_name) ==
    RegionR(s, "rooms_mutex",
        IF RoomsMutexHeld THEN [s |-> Block(s), r |-> -1]
        ELSE
        LET ri == find_room(s, room_name) IN
        IF ri = -1 THEN [s |-> s, r |-> -1]
        ELSE
          LET room == s.rooms[ri]
              r1 == IF room.player1 = ""
                    THEN [room EXCEPT !.player1 = player_name, !.players_count = 1]
                    ELSE IF room.player2 = ""
                    THEN [room EXCEPT !.player2 = player_name, !.players_count = 2]
                    ELSE room
              r2 == IF r1.players_count >= 1 /\ ~r1.game_started
                    THEN [r1 EXCEPT !.game = init_game(r1.player1, r1.player2),
                                    !.game_started = TRUE, !.state = "ACTIVE"]
                    ELSE r1
          IN [s |-> [s EXCEPT !.rooms[ri] = r2], r |-> 0])

\* join_room from the second pthread_mutex_lock(&server->rooms_mutex) on:
\* the player is added to whatever the room is by now
join_room_add(s, room_name, player_name) ==
    RegionR(s, "rooms_mutex",
        IF RoomsMutexHeld THEN [s |-> Block(s), r |-> -1]
        ELSE
        LET ri == find_room(s, room_name) IN
        IF ri = -1 THEN [s |-> s, r |-> -1]
        ELSE
          LET room == s.rooms[ri]
              r1 == IF room.player1 = ""
                    THEN [room EXCEPT !.player1 = player_name, !.players_count = 1]
                    ELSE IF room.player2 = ""
                    THEN [room EXCEPT !.player2 = player_name, !.players_count = 2]
                    ELSE room
              r2 == IF r1.players_count = 2 /\ ~r1.game_started
                    THEN [r1 EXCEPT !.game = init_game(r1.player1, r1.player2),
                                    !.game_started = TRUE, !.state = "ACTIVE"]
                    ELSE r1
          IN [s |-> [s EXCEPT !.rooms[ri] = r2], r |-> 0])

\* join_room when no other thread runs between its two halves:
\* [s, r |-> 0 or the negative error code]
join_room(s, room_name, player_name) ==
    LET chk == join_room_check(s, room_name, player_name) IN
    IF chk.r = 1 THEN [s |-> chk.s, r |-> -1]
    ELSE IF chk.r # 0 THEN chk
    ELSE join_room_add(chk.s, room_name, player_name)

leave_room(s, room_name, player_name) ==
    Region(s, "rooms_mutex",
        IF RoomsMutexHeld THEN Block(s)
        ELSE
        LET ri == find_room(s, room_name) IN
        IF ri = -1 THEN s
        ELSE
          LET room == s.rooms[ri]
              count == room.players_count - 1
          IN IF count = 0
             THEN [s EXCEPT !.rooms[ri] = ZeroRoom, !.room_count = @ - 1]
             ELSE LET other == IF room.player1 # player_name
                               THEN find_client(s, room.player1)
                               ELSE IF room.player2 # ""
                               THEN find_client(s, room.player2)
                               ELSE -1
                      s1 == IF other # -1
                            THEN transition_client_state(
                                   send_message(
                                     [s EXCEPT !.clients[other].current_room = ""],
                                     s.clients[other].socket, OP_ROOM_LEFT,
                                     <<room_name, player_name>>),
                                   other, "IN_LOBBY")
                            ELSE s
                  IN [s1 EXCEPT !.rooms[ri] = ZeroRoom, !.room_count = @ - 1])

broadcast_to_room(s, room_name, op, data) ==
    LET ri == find_room(s, room_name) IN
    IF ri = -1 THEN s
    ELSE LET p1 == find_client(s, s.rooms[ri].player1)
             p2 == IF s.rooms[ri].player2 # ""
                   THEN find_client(s, s.rooms[ri].player2) ELSE -1
             s1 == IF p1 # -1
                   THEN send_message(s, s.clients[p1].socket, op, data) ELSE s
         IN IF p2 # -1
            THEN send_message(s1, s.clients[p2].socket, op, data) ELSE s1

\* the for-loop at the end of disconnect_malicious_client
ShiftClients(s, ci) ==
    LET id == s.clients[ci].client_id
        i == FirstIdx({k \in CSlots : k < s.client_count
                                      /\ s.clients[k].client_id = id})
    IN IF i = -1 THEN s
       ELSE [s EXCEPT
               !.clients = [j \in CSlots |->
                              IF i <= j /\ j < s.client_count - 1
                              THEN s.clients[j + 1] ELSE s.clients[j]],
               !.client_count = @ - 1]

disconnect_malicious_client(s, ci) ==
    LET c == s.clients[ci]
        s1 == IF c.current_room # ""
              THEN leave_room(s, c.current_room, c.client_id) ELSE s
    IN IF s1.blocked THEN s1
       ELSE LET s2 == close_socket(s1, s1.clients[ci].socket)
                s3 == [s2 EXCEPT !.clients[ci].active = FALSE,
                                 !.clients[ci].state = "REMOVED"]
            IN Took(ShiftClients(s3, ci), "clients_mutex")

----------------------------------------------------------------------------
(* server.c: the request handlers.  `data` is the DATA part of the frame,  *)
(* split at its commas.                                                    *)

\* snprintf(..., "%d", n) for the player counts a room can have
Dec(n) ==
    CASE n = 0 -> "0" [] n = 1 -> "1" [] n = 2 -> "2" [] n = -1 -> "-1"
      [] OTHER -> "?"

\* sscanf(data, "%[^,],%s", ...): the number of fields it assigns
Scan2(data) ==
    IF Len(data) >= 1 /\ data[1] # ""
    THEN (IF Len(data) >= 2 /\ data[2] # "" THEN 2 ELSE 1)
    ELSE 0

handle_login(s, ci, data) ==
    Region(s, "clients_mutex",
        LET clean_id == IF Len(data) >= 1 THEN data[1] ELSE ""
            sock == s.clients[ci].socket
        IN IF clean_id = ""
           THEN send_message(s, sock, OP_LOGIN_FAIL, <<"Name cannot be empty">>)
           ELSE IF \E i \in CSlots : /\ s.clients[i].active
                                     /\ s.clients[i].logged_in
                                     /\ s.clients[i].client_id = clean_id
           THEN send_message(s, sock, OP_LOGIN_FAIL, <<"Client ID already in use">>)
           ELSE send_message(
                  [s EXCEPT !.clients[ci].client_id = clean_id,
                            !.clients[ci].game_state = "IN_LOBBY",
                            !.clients[ci].logged_in = TRUE,
                            !.clients[ci].active = TRUE],
                  sock, OP_LOGIN_OK, <<clean_id>>))

handle_create_room(s, ci, data) ==
    LET sock == s.clients[ci].socket IN
    IF ~s.clients[ci].logged_in
    THEN send_message(s, sock, OP_ROOM_FAIL, <<"Not logged in">>)
    ELSE IF Scan2(data) # 2
    THEN send_message(s, sock, OP_ROOM_FAIL, <<"Invalid format">>)
    ELSE LET res == create_room(s, data[2], data[1]) IN
         IF res.s.blocked THEN res.s
         ELSE IF res.r = -1
         THEN send_message(s, sock, OP_ROOM_FAIL,
                           <<"Room already exists or server full">>)
         ELSE send_message(res.s, sock, OP_ROOM_CREATED, <<data[2]>>)

\* handle_join_room after join_room has returned res
handle_join_room_result(s, ci, data, res) ==
    LET sock == s.clients[ci].socket
        room_name == data[2]
    IN
    IF res.s.blocked THEN res.s
    ELSE IF res.r = -1
         THEN send_message(res.s, sock, OP_ROOM_FAIL, <<"Room not found">>)
    ELSE IF res.r = -2
         THEN send_message(res.s, sock, OP_ROOM_FAIL, <<"Room is full">>)
    ELSE IF res.r = -3
         THEN send_message(res.s, sock, OP_ROOM_FAIL,
                           <<"You are already in this room">>)
    ELSE IF res.r = -4
         THEN send_message(res.s, sock, OP_ROOM_FAIL,
                           <<"Already in another room. Leave first.">>)
    ELSE IF res.r = -5
         THEN send_message(res.s, sock, OP_ROOM_FAIL, <<"Client not found">>)
    ELSE
    LET s1 == [res.s EXCEPT !.clients[ci].current_room = room_name]
        ri == find_room(s1, room_name)
    IN
    IF ri = -1 THEN send_message(s1, sock, OP_ROOM_FAIL, <<"Room disappeared">>)
    ELSE
    LET room == s1.rooms[ri]
        s2 == send_message(s1, sock, OP_ROOM_JOINED,
                           <<room_name, Dec(room.players_count)>>)
    IN
    IF room.game_started
    THEN LET s2l == Took(s2, "clients_mutex")
             c1 == find_client(s2l, room.player1)
             c2 == find_client(s2l, room.player2)
         IN IF c1 = -1 \/ c2 = -1
            THEN [s2l EXCEPT !.crashed = TRUE]   \* transition_client_state(NULL, ...)
            ELSE LET s3 == transition_client_state(
                             transition_client_state(s2l, c1, "IN_GAME"),
                             c2, "IN_GAME")
                     s4 == broadcast_to_room(s3, room_name, OP_GAME_START,
                              <<room_name, room.player1, room.player2,
                                room.game.current_turn>>)
                 IN broadcast_to_room(s4, room_name, OP_GAME_STATE, <<room_name>>)
    ELSE transition_client_state(s2, ci, "IN_ROOM_WAITING")

\* handle_join_room when no other thread runs inside its join_room
handle_join_room(s, ci, data) ==
    LET sock == s.clients[ci].socket IN
    IF ~s.clients[ci].logged_in
    THEN send_message(s, sock, OP_ROOM_FAIL, <<"Not logged in">>)
    ELSE IF Scan2(data) # 2
    THEN send_message(s, sock, OP_ROOM_FAIL, <<"Invalid format">>)
    ELSE handle_join_room_result(s, ci, data, join_room(s, data[2], data[1]))

\* cleanup_finished_game: the loop over clients[] from slot i on
RECURSIVE CleanupClients(_, _, _)
CleanupClients(s, room_name, i) ==
    IF i >= MAX_CLIENTS THEN s
    ELSE IF s.clients[i].active /\ s.clients[i].current_room = room_name
    THEN CleanupClients(
            send_message(
               [transition_client_state(s, i, "IN_LOBBY")
                   EXCEPT !.clients[i].current_room = ""],
               s.clients[i].socket, OP_ROOM_LEFT, <<room_name>>),
            room_name, i + 1)
    ELSE CleanupClients(s, room_name, i + 1)

cleanup_finished_game(s, ri) ==
    LET s1 == CleanupClients(Took(s, "clients_mutex"), s.rooms[ri].name, 0) IN
    IF RoomsMutexHeld THEN Block(Took(s1, "rooms_mutex"))
    ELSE Took([s1 EXCEPT !.rooms[ri] = ZeroRoom, !.room_count = @ - 1],
              "rooms_mutex")

\* handle_move and handle_multi_move from change_turn on; ri is the Room
\* pointer the handler holds
FinishMove(s, ri, room_name) ==
    LET s1 == [s EXCEPT !.rooms[ri].game = change_turn(@)]
        s2 == broadcast_to_room(s1, room_name, OP_GAME_STATE, <<room_name>>)
        end == check_game_over(s2.rooms[ri].game)
    IN IF end.over
       THEN cleanup_finished_game(
               broadcast_to_room(s2, room_name, OP_GAME_END,
                                 <<end.winner, "no_pieces">>),
               ri)
       ELSE s2

\* handle_move up to and including apply_move:
\* [s, inside |-> the move was applied and change_turn is next, ri]
handle_move_begin(s, ci, data) ==
    LET sock == s.clients[ci].socket IN
    IF ~s.clients[ci].logged_in \/ s.clients[ci].current_room = ""
    THEN [s |-> send_message(s, sock, OP_ERROR, <<"Not in a game">>),
          inside |-> FALSE, ri |-> -1]
    ELSE IF Len(data) # 3
    THEN [s |-> send_message(s, sock, OP_INVALID_MOVE, <<"Invalid move format">>),
          inside |-> FALSE, ri |-> -1]
    ELSE
    LET room_name == data[1]
        player_name == data[2]
        ri == find_room(s, room_name)
    IN
    IF ri = -1 \/ (ri # -1 /\ ~s.rooms[ri].game_started)
    THEN [s |-> send_message(s, sock, OP_ERROR, <<"Game not found">>),
          inside |-> FALSE, ri |-> -1]
    ELSE IF ~validate_move(s.rooms[ri].game, data[3], player_name)
    THEN [s |-> send_message(s, sock, OP_INVALID_MOVE, <<"Invalid move">>),
          inside |-> FALSE, ri |-> ri]
    ELSE [s |-> [s EXCEPT !.rooms[ri].game = apply_move(@, data[3])],
          inside |-> TRUE, ri |-> ri]

\* handle_move when no other thread runs between apply_move and change_turn
handle_move(s, ci, data) ==
    LET b == handle_move_begin(s, ci, data) IN
    IF b.inside THEN FinishMove(b.s, b.ri, data[1]) ELSE b.s

\* the validate/apply loop of handle_multi_move over the steps from k on
RECURSIVE ApplyChain(_, _, _, _)
ApplyChain(game, data, k, player_name) ==
    IF k > Len(data) THEN [game |-> game, ok |-> TRUE]
    ELSE IF ~validate_move(game, data[k], player_name)
    THEN [game |-> game, ok |-> FALSE]
    ELSE ApplyChain(apply_move(game, data[k]), data, k + 1, player_name)

\* handle_multi_move up to the end of the validate/apply loop:
\* [s, inside |-> the chain was applied and change_turn is next, ri]
handle_multi_move_begin(s, ci, data) ==
    LET sock == s.clients[ci].socket IN
    IF ~s.clients[ci].logged_in \/ s.clients[ci].current_room = ""
    THEN [s |-> send_message(s, sock, OP_ERROR, <<"Not in a game">>),
          inside |-> FALSE, ri |-> -1]
    ELSE IF Len(data) < 3
    THEN [s |-> send_message(s, sock, OP_INVALID_MOVE,
                             <<"Invalid multi-move format">>),
          inside |-> FALSE, ri |-> -1]
    ELSE
    LET room_name == data[1]
        player_name == data[2]
        ri == find_room(s, room_name)
    IN
    IF ri = -1 \/ (ri # -1 /\ ~s.rooms[ri].game_started)
    THEN [s |-> send_message(s, sock, OP_ERROR, <<"Game not found">>),
          inside |-> FALSE, ri |-> -1]
    ELSE LET res == ApplyChain(s.rooms[ri].game, data, 3, player_name)
             s1 == [s EXCEPT !.rooms[ri].game = res.game]
         IN IF ~res.ok
            THEN [s |-> send_message(s1, sock, OP_INVALID_MOVE,
                                     <<"Invalid move in chain">>),
                  inside |-> FALSE, ri |-> ri]
            ELSE [s |-> s1, inside |-> TRUE, ri |-> ri]

\* handle_multi_move when no other thread runs between the loop and
\* change_turn
handle_multi_move(s, ci, data) ==
    LET b == handle_multi_move_begin(s, ci, data) IN
    IF b.inside THEN FinishMove(b.s, b.ri, data[1]) ELSE b.s

handle_leave_room(s, ci, data) ==
    LET sock == s.clients[ci].socket IN
    IF Scan2(data) # 2
    THEN send_message(s, sock, OP_ERROR, <<"Invalid format">>)
    ELSE LET s1 == leave_room(s, data[1], data[2]) IN
         IF s1.blocked THEN s1
         ELSE send_message(
                transition_client_state(
                   [s1 EXCEPT !.clients[ci].current_room = ""], ci, "IN_LOBBY"),
                sock, OP_ROOM_LEFT, <<data[1]>>)

handle_ping(s, ci) == send_message(s, s.clients[ci].socket, OP_PONG, <<>>)

handle_list_rooms(s, ci) ==
    Region(s, "rooms_mutex",
        IF RoomsMutexHeld THEN Block(s)
        ELSE send_message(s, s.clients[ci].socket, OP_ROOMS_LIST,
                          <<>>))

----------------------------------------------------------------------------
(* server.c: disconnects seen by the heartbeat thread                      *)

remove_client_after_timeout(s, client_id) ==
    Region(s, "clients_mutex",
        LET ci == find_client(s, client_id) IN
        IF ci = -1 THEN s
        ELSE LET s1 == IF s.clients[ci].socket > 0
                       THEN close_socket(s, s.clients[ci].socket) ELSE s
             IN [s1 EXCEPT !.clients[ci].state = "REMOVED",
                           !.clients[ci].active = FALSE,
                           !.client_count = @ - 1])

handle_player_disconnect(s, ci) ==
    Region(s, "rooms_mutex",
        IF RoomsMutexHeld THEN Block(s)
        ELSE
        LET c == s.clients[ci]
            ri == find_room(s, c.current_room)
        IN
        IF ri = -1 THEN s
        ELSE
        LET room == s.rooms[ri] IN
        IF room.state = "WAITING"
        THEN LET other == IF room.player1 # c.client_id /\ room.player1 # ""
                          THEN find_client(s, room.player1)
                          ELSE IF room.player2 # ""
                          THEN find_client(s, room.player2)
                          ELSE -1
             IN IF other # -1
                THEN send_message(s, s.clients[other].socket,
                                  OP_PLAYER_DISCONNECTED, <<c.client_id>>)
                ELSE s
        ELSE IF room.state = "ACTIVE"
        THEN LET s1 == [s EXCEPT !.rooms[ri] = room_pause_game(@, c.client_id)]
                 other_player == IF room.player1 = c.client_id
                                 THEN room.player2 ELSE room.player1
                 oc == IF other_player # "" THEN find_client(s1, other_player) ELSE -1
             IN IF oc # -1 /\ s1.clients[oc].state = "CONNECTED"
                THEN send_message(
                       send_message(s1, s1.clients[oc].socket,
                                    OP_PLAYER_DISCONNECTED, <<room.name, c.client_id>>),
                       s1.clients[oc].socket, OP_GAME_PAUSED, <<room.name>>)
                ELSE s1
        ELSE s)

handle_player_long_disconnect(s, ci) ==
    Region(s, "rooms_mutex",
        IF RoomsMutexHeld THEN Block(s)
        ELSE
        LET c == s.clients[ci]
            ri == find_room(s, c.current_room)
        IN
        IF ri = -1 THEN s
        ELSE
        LET room == s.rooms[ri]
            winner == IF room.player1 = c.client_id THEN room.player2 ELSE room.player1
            wc == IF winner # "" THEN find_client(s, winner) ELSE -1
            s1 == [s EXCEPT !.rooms[ri] = room_finish_game(@)]
            s2 == IF wc # -1 /\ s1.clients[wc].state = "CONNECTED"
                  THEN [send_message(s1, s1.clients[wc].socket, OP_GAME_END,
                                     <<winner, "opponent_timeout">>)
                          EXCEPT !.clients[wc].current_room = ""]
                  ELSE s1
        IN [s2 EXCEPT !.rooms[ri] = ZeroRoom, !.room_count = @ - 1,
                      !.clients[ci].state = "REMOVED"])

\* check_room_pause_timeouts calls handle_player_long_disconnect while it holds
\* rooms_mutex: TRUE when the heartbeat thread locks rooms_mutex a second time
RoomPauseTimeoutFires(s) ==
    \E i \in RSlots :
        /\ s.rooms[i].state = "PAUSED"
        /\ room_should_timeout(s.rooms[i], LONG_DISCONNECT_THRESHOLD_SEC)
        /\ find_client(s, s.rooms[i].disconnected_player) # -1

----------------------------------------------------------------------------
(* server.c: reconnection                                                  *)

\* the switch over game_state at the end of handle_reconnect_request
ReconnectReplay(s, oc, room_name, player_name) ==
    LET sock == s.clients[oc].socket
        game_state == s.clients[oc].game_state
        ToLobby(s0, why) ==
            send_message(
              send_message(
                transition_client_state(
                   [s0 EXCEPT !.clients[oc].current_room = ""], oc, "IN_LOBBY"),
                sock, OP_RECONNECT_FAIL, <<why>>),
              sock, OP_LOGIN_OK, <<player_name>>)
    IN
    CASE game_state = "IN_LOBBY" ->
           send_message(send_message(s, sock, OP_RECONNECT_OK, <<"lobby">>),
                        sock, OP_LOGIN_OK, <<player_name>>)
      [] game_state = "IN_ROOM_WAITING" ->
           IF room_name = ""
           THEN send_message(s, sock, OP_RECONNECT_FAIL, <<"Room name required">>)
           ELSE Region(s, "rooms_mutex",
                IF RoomsMutexHeld THEN Block(s)
           ELSE IF find_room(s, room_name) = -1
           THEN ToLobby(s, "Room was closed")
           ELSE send_message(
                  send_message(s, sock, OP_RECONNECT_OK, <<room_name>>),
                  sock, OP_ROOM_JOINED,
                  <<room_name, Dec(s.rooms[find_room(s, room_name)].players_count)>>))
      [] game_state = "IN_GAME" ->
           IF room_name = ""
           THEN send_message(s, sock, OP_RECONNECT_FAIL, <<"Room name required">>)
           ELSE Region(s, "rooms_mutex",
                IF RoomsMutexHeld THEN Block(s)
           ELSE
           LET ri == find_room(s, room_name) IN
           IF ri = -1 THEN ToLobby(s, "Game ended")
           ELSE
           LET room == s.rooms[ri]
               is_player1 == room.player1 = player_name
               is_player2 == room.player2 = player_name
           IN
           IF ~is_player1 /\ ~is_player2
           THEN send_message(s, sock, OP_RECONNECT_FAIL, <<"Not a member">>)
           ELSE IF room.state = "PAUSED"
           THEN LET s1 == [s EXCEPT !.rooms[ri] = room_resume_game(@)]
                    s2 == send_message(
                            send_message(
                              send_message(s1, sock, OP_RECONNECT_OK, <<room_name>>),
                              sock, OP_GAME_RESUMED, <<room_name>>),
                            sock, OP_GAME_STATE, <<room_name>>)
                    other_player == IF is_player1 THEN room.player2 ELSE room.player1
                    other == IF other_player # ""
                             THEN find_client(s2, other_player) ELSE -1
                IN IF other # -1 /\ s2.clients[other].state = "CONNECTED"
                   THEN send_message(
                          send_message(s2, s2.clients[other].socket,
                                       OP_PLAYER_RECONNECTED,
                                       <<room_name, player_name>>),
                          s2.clients[other].socket, OP_GAME_RESUMED, <<room_name>>)
                   ELSE s2
           ELSE IF room.state = "ACTIVE"
           THEN send_message(
                  send_message(s, sock, OP_RECONNECT_OK, <<room_name>>),
                  sock, OP_GAME_STATE, <<room_name>>)
           ELSE send_message(
                  transition_client_state(
                    [send_message(s, sock, OP_RECONNECT_FAIL, <<"Game not active">>)
                        EXCEPT !.clients[oc].current_room = ""],
                    oc, "IN_LOBBY"),
                  sock, OP_LOGIN_OK, <<player_name>>))
      [] OTHER -> send_message(s, sock, OP_RECONNECT_FAIL, <<"Unknown state">>)

\* a hand-over that adopts the named session whatever its state is
handle_reconnect_request_any(s, tc, data) ==
    LET parsed == Scan2(data)
        tsock == s.clients[tc].socket
    IN
    IF parsed = 0
    THEN send_message(s, tsock, OP_RECONNECT_FAIL, <<"Invalid format">>)
    ELSE
    Region(s, "clients_mutex",
        LET room_name == IF parsed = 1 THEN "" ELSE data[1]
            player_name == IF parsed = 1 THEN data[1] ELSE data[2]
            oc == find_client(s, player_name)
        IN
        IF oc = -1
        THEN send_message(s, tsock, OP_RECONNECT_FAIL, <<"Client not found">>)
        ELSE
        LET old_socket == s.clients[oc].socket
            s1 == IF old_socket > 0 THEN close_socket(s, old_socket) ELSE s
            s2 == [s1 EXCEPT !.clients[oc] =
                     client_mark_reconnected(
                        [@ EXCEPT !.state = "RECONNECTING", !.disconnect_time = 0,
                                  !.socket = tsock, !.active = TRUE,
                                  !.logged_in = TRUE])]
            s3 == [s2 EXCEPT !.clients[tc].active = FALSE,
                             !.clients[tc].logged_in = FALSE,
                             !.clients[tc].client_id = "",
                             !.clients[tc].socket = -1]
        IN ReconnectReplay(s3, oc, room_name, player_name))

handle_reconnect_request(s, tc, data) ==
    LET parsed == Scan2(data)
        tsock == s.clients[tc].socket
    IN
    IF parsed = 0
    THEN send_message(s, tsock, OP_RECONNECT_FAIL, <<"Invalid format">>)
    ELSE
    Region(s, "clients_mutex",
        LET room_name == IF parsed = 1 THEN "" ELSE data[1]
            player_name == IF parsed = 1 THEN data[1] ELSE data[2]
            oc == find_client(s, player_name)
        IN
        IF oc = -1
        THEN send_message(s, tsock, OP_RECONNECT_FAIL, <<"Client not found">>)
        ELSE IF s.clients[oc].state = "REMOVED"
        THEN send_message(s, tsock, OP_RECONNECT_FAIL, <<"Client was removed">>)
        ELSE IF s.clients[oc].state # "DISCONNECTED" /\ s.clients[oc].state # "TIMEOUT"
        THEN send_message(s, tsock, OP_RECONNECT_FAIL,
                          <<"Cannot reconnect from state", s.clients[oc].state>>)
        ELSE
        LET old_socket == s.clients[oc].socket
            s1 == IF old_socket > 0 THEN close_socket(s, old_socket) ELSE s
            s2 == [s1 EXCEPT !.clients[oc] =
                     client_mark_reconnected(
                        [@ EXCEPT !.state = "RECONNECTING", !.disconnect_time = 0,
                                  !.socket = tsock, !.active = TRUE,
                                  !.logged_in = TRUE])]
            s3 == [s2 EXCEPT !.clients[tc].active = FALSE,
                             !.clients[tc].logged_in = FALSE,
                             !.clients[tc].client_id = "",
                             !.clients[tc].socket = -1]
        IN ReconnectReplay(s3, oc, room_name, player_name))

----------------------------------------------------------------------------
(* server.c: the end of a connection, and the operation whitelist          *)

\* a disconnect that drops every session, logged in or not
handle_client_disconnect_drop(s, ci, socket) ==
    [close_socket(s, socket) EXCEPT !.clients[ci].active = FALSE,
                                    !.client_count = @ - 1]


handle_client_disconnect(s, ci, socket) ==
    IF ~s.clients[ci].logged_in \/ s.clients[ci].client_id = ""
    THEN Took([close_socket(s, socket) EXCEPT !.clients[ci].active = FALSE,
                                              !.client_count = @ - 1],
              "clients_mutex")
    ELSE [close_socket(s, socket) EXCEPT
             !.clients[ci].state = "DISCONNECTED",
             !.clients[ci].disconnect_time = now,
             !.clients[ci].missed_pongs = 0,
             !.clients[ci].socket = -1]

\* protocol.c should_disconnect_client on the violations of slot ci:
\* [s, r |-> the client is to be disconnected]
should_disconnect_client(s, ci) ==
    LET v == s.clients[ci]
        reset == v.last_violation_time > 0
                 /\ (now - v.last_violation_time) > VIOLATION_RESET_TIME
        s1 == [s EXCEPT
                 !.clients[ci].unknown_opcode_count = IF reset THEN 0 ELSE @,
                 !.clients[ci].last_violation_time = now,
                 !.clients[ci].invalid_message_count =
                     (IF reset THEN 0 ELSE @) + 1]
    IN [s |-> s1, r |-> s1.clients[ci].invalid_message_count >= MAX_VIOLATIONS]

\* validate_operation: [s, r |-> the operation may be dispatched]
validate_operation(s, ci, op) ==
    IF ~is_operation_allowed(s.clients[ci].game_state, op)
    THEN LET s1 == [s EXCEPT !.clients[ci].unknown_opcode_count = @ + 1] IN
         IF s1.clients[ci].unknown_opcode_count >= MAX_VIOLATIONS
         THEN [s |-> disconnect_malicious_client(s1, ci), r |-> FALSE]
         ELSE [s |-> send_message(s1, s1.clients[ci].socket, OP_ERROR,
                                  <<"Operation not allowed">>),
               r |-> FALSE]
    ELSE [s |-> s, r |-> TRUE]

----------------------------------------------------------------------------
(* protocol.c: frames.  A frame on the wire is PREFIX|OP|LEN|DATA\n; the    *)
(* model keeps the prefix, the number in the OP field and DATA.            *)

Payloads(op) ==
    CASE op = OP_LOGIN -> {<<>>} \cup {<<n>> : n \in PlayerNames}
      [] op \in {OP_CREATE_ROOM, OP_JOIN_ROOM} ->
            {<<n, r>> : n \in PlayerNames, r \in RoomNames}
      [] op = OP_LEAVE_ROOM ->
            {<<>>} \cup {<<r, n>> : r \in RoomNames, n \in PlayerNames}
      [] op = OP_RECONNECT_REQUEST ->
            {<<n>> : n \in PlayerNames}
               \cup {<<r, n>> : r \in RoomNames, n \in PlayerNames}
      [] op = OP_MOVE ->
            {<<r, n, k>> : r \in RoomNames, n \in PlayerNames, k \in StepKinds}
      [] op = OP_MULTI_MOVE ->
            {<<r, n, "capture", k>> :
                r \in RoomNames, n \in PlayerNames, k \in {"capture", "illegal"}}
      [] OTHER -> {<<>>}

\* the opcodes of the frames peers send: every opcode a client may use, and
\* two of the opcodes only the server sends (no whitelist and no case of the
\* dispatch switch names any of those)
PeerOpcodes ==
    {OP_LOGIN, OP_CREATE_ROOM, OP_JOIN_ROOM, OP_LEAVE_ROOM, OP_LIST_ROOMS,
     OP_MOVE, OP_MULTI_MOVE, OP_PING, OP_PONG, OP_RECONNECT_REQUEST, OP_ERROR,
     OP_LOGIN_OK, OP_GAME_STATE}

\* the frames a peer may send: well-formed ones, one with a foreign prefix
\* and two with a number that is no opcode
Frames ==
    UNION {{[prefix |-> PREFIX, op |-> op, data |-> d] : d \in Payloads(op)} :
              op \in PeerOpcodes} \cup
    {[prefix |-> "XXXTCP", op |-> OP_LOGIN, data |-> <<"a">>],
     [prefix |-> PREFIX, op |-> 0, data |-> <<>>],
     [prefix |-> PREFIX, op |-> OP_GAME_RESUMED + 1, data |-> <<>>]}

\* parse_message: 0 and the message, or -1
parse_message(f) ==
    IF f.prefix # PREFIX THEN [r |-> -1, op |-> 0, data |-> <<>>]
    ELSE IF ~is_valid_opcode(f.op) THEN [r |-> -1, op |-> f.op, data |-> <<>>]
    ELSE [r |-> 0, op |-> f.op, data |-> f.data]

----------------------------------------------------------------------------
(* server.c: client_handler                                                *)

\* the switch (msg.op) of client_handler
Dispatch(s, ci, my_socket, op, data) ==
    CASE op = OP_LOGIN -> handle_login(s, ci, data)
      [] op = OP_CREATE_ROOM -> handle_create_room(s, ci, data)
      [] op = OP_JOIN_ROOM -> handle_join_room(s, ci, data)
      [] op = OP_MOVE -> handle_move(s, ci, data)
      [] op = OP_MULTI_MOVE -> handle_multi_move(s, ci, data)
      [] op = OP_LEAVE_ROOM -> handle_leave_room(s, ci, data)
      [] op = OP_PING -> handle_ping(s, ci)
      [] op = OP_PONG -> client_update_pong(s, ci)
      [] op = OP_LIST_ROOMS -> handle_list_rooms(s, ci)
      [] op = OP_RECONNECT_REQUEST -> handle_reconnect_request(s, ci, data)
      [] OTHER -> send_message(s, my_socket, OP_ERROR, <<"Unknown operation">>)

NoEv == [sock |-> 0, op |-> 0, gs |-> "", res |-> "none"]

\* one complete frame in message_buffer:
\* [s, exit |-> the thread returns, ev |-> what was done with the frame]
ProcessFrame(s, my_socket, f) ==
    LET ci == SlotOfSocket(s, my_socket) IN
    IF ci = -1
    THEN [s |-> Took(s, "clients_mutex"), exit |-> FALSE,
          ev |-> [sock |-> my_socket, op |-> 0, gs |-> "", res |-> "dropped"]]
    ELSE
    LET msg == parse_message(f)
        gs == s.clients[ci].game_state
    IN
    IF msg.r # 0
    THEN LET sd == should_disconnect_client(Took(s, "clients_mutex"), ci) IN
         [s |-> IF sd.r THEN disconnect_malicious_client(sd.s, ci) ELSE sd.s,
          exit |-> sd.r,
          ev |-> [sock |-> my_socket, op |-> f.op, gs |-> gs, res |-> "malformed"]]
    ELSE
    LET v == validate_operation(Took(s, "clients_mutex"), ci, msg.op) IN
    IF ~v.r
    THEN [s |-> v.s, exit |-> FALSE,
          ev |-> [sock |-> my_socket, op |-> msg.op, gs |-> gs, res |-> "rejected"]]
    ELSE [s |-> Dispatch(Took(s, "clients_mutex"), ci, my_socket, msg.op, msg.data),
          exit |-> FALSE,
          ev |-> [sock |-> my_socket, op |-> msg.op, gs |-> gs, res |-> "dispatched"]]

\* the top of the while loop: [s, exit]
LoopTop(s, my_socket) ==
    LET ci == SlotOfSocket(s, my_socket) IN
    IF ci = -1
    THEN [s |-> close_socket(Took(s, "clients_mutex"), my_socket), exit |-> TRUE]
    ELSE IF s.clients[ci].state = "REMOVED"
    THEN [s |-> close_socket(Took(s, "clients_mutex"), my_socket), exit |-> TRUE]
    ELSE [s |-> Took(s, "clients_mutex"), exit |-> FALSE]

----------------------------------------------------------------------------
(* server.c: heartbeat_thread                                              *)

\* the first loop of heartbeat_thread from slot i on: [s, actions]
RECURSIVE HbScan(_, _, _)
HbScan(s, i, actions) ==
    IF i >= MAX_CLIENTS THEN [s |-> s, actions |-> actions]
    ELSE
    LET c == s.clients[i]
        state == c.state
    IN
    IF ~c.active \/ ~c.logged_in THEN HbScan(s, i + 1, actions)
    ELSE IF state = "RECONNECTING" \/ state = "REMOVED" THEN HbScan(s, i + 1, actions)
    ELSE
    LET s1 == IF c.socket > 0 /\ ~c.waiting_for_pong
              THEN [send_message(s, c.socket, OP_PING, <<>>)
                      EXCEPT !.clients[i].waiting_for_pong = TRUE]
              ELSE s
        chk == client_check_timeout(s1, i)
        should_remove == chk.r
    IN
    IF should_remove \/ state = "DISCONNECTED"
    THEN HbScan(chk.s, i + 1,
                Append(actions,
                       [client_id |-> c.client_id,
                        should_remove |-> should_remove,
                        should_handle_disconnect |->
                            (state = "DISCONNECTED" /\ ~should_remove),
                        current_room |-> c.current_room]))
    ELSE HbScan(chk.s, i + 1, actions)

\* one iteration of the second loop of heartbeat_thread
HbExecute(s, action) ==
    IF action.should_remove
    THEN LET ci == find_client(s, action.client_id) IN
         IF ci = -1 THEN Took(s, "clients_mutex")
         ELSE IF s.clients[ci].state = "RECONNECTING" THEN Took(s, "clients_mutex")
         ELSE IF action.current_room # ""
              THEN handle_player_long_disconnect(Took(s, "clients_mutex"), ci)
              ELSE remove_client_after_timeout(Took(s, "clients_mutex"),
                                               action.client_id)
    ELSE IF action.should_handle_disconnect /\ action.current_room # ""
    THEN LET ci == find_client(s, action.client_id) IN
         IF ci = -1 THEN Took(s, "clients_mutex")
         ELSE handle_player_disconnect(Took(s, "clients_mutex"), ci)
    ELSE s

\* check_room_pause_timeouts at the end of a cycle: the heartbeat thread goes
\* back to sleep, or locks rooms_mutex a second time, in
\* handle_player_long_disconnect, and never returns: [s, hb]
\* for ever: [s, hb]
check_room_pause_timeouts(s) ==
    IF RoomPauseTimeoutFires(s)
    THEN [s |-> Lock(Lock(s, "rooms_mutex"), "rooms_mutex"),
          hb |-> [pc |-> "deadlocked", actions |-> <<>>]]
    ELSE [s |-> Took(s, "rooms_mutex"),
          hb |-> [pc |-> "sleep", actions |-> <<>>]]

----------------------------------------------------------------------------
(* The state after server_init and server_start.  A run begins with one of *)
(* the openings below, a fixed sequence of accept(), frames, lost          *)
(* connections and heartbeat sleeps that brings the server into a lobby, a *)
(* waiting room, a game or an interrupted game; every step after the       *)
(* opening is free.                                                        *)

Fr(op, data) == [prefix |-> PREFIX, op |-> op, data |-> data]

Acc(k) == [kind |-> "accept", sock |-> k, f |-> Fr(0, <<>>)]
Rcv(k, op, data) == [kind |-> "frame", sock |-> k, f |-> Fr(op, data)]
\* a frame that arrives without waiting for a join_room in progress to finish
Race(k, op, data) == [kind |-> "race", sock |-> k, f |-> Fr(op, data)]
\* the peer of k goes away; the heartbeat thread sleeps d seconds (in sock)
Gone(k) == [kind |-> "recvfail", sock |-> k, f |-> Fr(0, <<>>)]
Nap(d) == [kind |-> "sleep", sock |-> d, f |-> Fr(0, <<>>)]

\* two peers log in
OpenLobby ==
    <<Acc(1), Rcv(1, OP_LOGIN, <<"a">>), Acc(2), Rcv(2, OP_LOGIN, <<"b">>)>>

\* a creates two rooms and waits in the first
OpenWaiting ==
    OpenLobby \o
    <<Rcv(1, OP_CREATE_ROOM, <<"a", "r1">>), Rcv(1, OP_CREATE_ROOM, <<"a", "r2">>),
      Rcv(1, OP_JOIN_ROOM, <<"a", "r1">>)>>

\* a and b play in r1
OpenGame ==
    OpenLobby \o
    <<Rcv(1, OP_CREATE_ROOM, <<"a", "r1">>), Rcv(1, OP_JOIN_ROOM, <<"a", "r1">>),
      Rcv(2, OP_JOIN_ROOM, <<"b", "r1">>)>>

\* a has logged in and its connection is lost
OpenLost == OpenLobby \o <<Gone(1)>>

\* a and b play in r1, a's connection is lost and the heartbeat wakes up
OpenDropped == OpenGame \o <<Gone(1), Nap(PING_INTERVAL_SEC)>>

\* a and b have logged in and stay silent while the heartbeat sweeps once and
\* wakes up again
OpenSilent ==
    OpenLobby \o <<Nap(PING_INTERVAL_SEC), Nap(PING_INTERVAL_SEC)>>

\* a waits in r1 and a third peer c has logged in; b and c ask to join r1, c
\* possibly while b's handler is inside join_room
OpenRace ==
    OpenLobby \o
    <<Rcv(1, OP_CREATE_ROOM, <<"a", "r1">>), Rcv(1, OP_JOIN_ROOM, <<"a", "r1">>),
      Acc(3), Rcv(3, OP_LOGIN, <<"c">>),
      Rcv(2, OP_JOIN_ROOM, <<"b", "r1">>), Race(3, OP_JOIN_ROOM, <<"c", "r1">>)>>

Openings ==
    {<<>>, OpenLobby, OpenWaiting, OpenGame, OpenLost, OpenDropped, OpenSilent,
     OpenRace}

\* a handler thread is between the two halves of join_room
JoinPending == \E k \in Socks : thr[k].pc = "join"

\* the step e is the next of the opening, or the opening is over; a step of
\* the opening other than a racing frame waits for a join_room in progress
Scripted(e) ==
    IF opening = <<>> THEN TRUE
    ELSE Head(opening) = e /\ (JoinPending => e.kind = "race")

Advance == opening' = IF opening = <<>> THEN <<>> ELSE Tail(opening)

\* server_init, and the run a peer is about to start
InitRegistry ==
    /\ clients = [i \in CSlots |-> ZeroClient]
    /\ rooms = [i \in RSlots |-> ZeroRoom]
    /\ client_count = 0
    /\ room_count = 0
    /\ closes = [k \in Socks |-> 0]
    /\ out = <<>>
    /\ thr = [k \in Socks |-> [pc |-> "unborn", more |-> 0]]
    /\ hb = [pc |-> "sleep", actions |-> <<>>]
    /\ events = 0
    /\ now = 1
    /\ nextSock = 1
    /\ crashed = FALSE
    /\ ev = NoEv
    /\ viol = {}
    /\ opening \in Openings
    /\ locks = NoLocks

Init == InitRegistry /\ wire = [pc |-> "idle"]

\* the registries after a step
Commit(s) ==
    /\ clients' = s.clients
    /\ rooms' = s.rooms
    /\ client_count' = s.client_count
    /\ room_count' = s.room_count
    /\ closes' = s.closes
    /\ out' = s.out
    /\ crashed' = s.crashed
    /\ locks' = [took |-> s.took, nest |-> s.nest]
    /\ wire' = wire

\* server_start: accept() returns a new descriptor
Accept ==
    /\ ~crashed
    /\ nextSock <= MaxConns
    /\ Scripted(Acc(nextSock))
    /\ Advance
    /\ LET res == add_client(Registry, nextSock) IN
       IF res.r < 0
       THEN /\ Commit(close_socket(
                        send_message(Registry, nextSock, OP_ERROR, <<"Server full">>),
                        nextSock))
            /\ thr' = [thr EXCEPT ![nextSock] = [pc |-> "dead", more |-> 0]]
       ELSE /\ Commit(res.s)
            /\ thr' = [thr EXCEPT ![nextSock] = [pc |-> "recv", more |-> 0]]
    /\ nextSock' = nextSock + 1
    /\ ev' = NoEv
    /\ UNCHANGED <<events, hb, now, viol>>

\* What becomes of the handler thread of my_socket after a frame.  When the
\* frame has left the connection without an open descriptor and an active slot,
\* the bytes recv() returned may hold up to `more` further frames, which the
\* for-loop goes on to process; otherwise the thread is back in recv(), where
\* the next frame is processed in the same way whichever recv() delivered it.
AfterFrame(my_socket, res, more) ==
    LET top == LoopTop(res.s, my_socket) IN
    IF res.s.blocked
    THEN /\ Commit(res.s)
         /\ thr' = [thr EXCEPT ![my_socket] = [pc |-> "blocked", more |-> 0]]
    ELSE IF res.s.crashed \/ res.exit
    THEN /\ Commit(res.s)
         /\ thr' = [thr EXCEPT ![my_socket] = [pc |-> "dead", more |-> 0]]
    ELSE IF ~top.exit /\ res.s.closes[my_socket] = 0
    THEN /\ Commit(res.s)
         /\ thr' = [thr EXCEPT ![my_socket] = [pc |-> "recv", more |-> 0]]
    ELSE /\ Commit(res.s)
         /\ thr' = [thr EXCEPT ![my_socket] = [pc |-> "proc", more |-> more]]

\* the frame is a violation: it fails to decode or the whitelist rejects it
Violation(e) == e.res \in {"malformed", "rejected"}

\* the frame f of my_socket is a JoinRoom that is dispatched and passes the
\* checks of the first half of join_room
JoinStarts(s, my_socket, f) ==
    LET ci == SlotOfSocket(s, my_socket)
        msg == parse_message(f)
    IN /\ ci # -1
       /\ msg.r = 0
       /\ msg.op = OP_JOIN_ROOM
       /\ validate_operation(s, ci, msg.op).r
       /\ s.clients[ci].logged_in
       /\ Scan2(msg.data) = 2
       /\ join_room_check(s, msg.data[2], msg.data[1]).r = 0

\* handle_join_room has reached the point in join_room where no lock is held:
\* the thread keeps its Client pointer and the payload and goes on later
BeginJoin(my_socket, f, more) ==
    LET ci == SlotOfSocket(Registry, my_socket) IN
    /\ thr' = [thr EXCEPT ![my_socket] =
                  [pc |-> "join", more |-> more, ci |-> ci, data |-> f.data,
                   gs |-> clients[ci].game_state]]
    /\ ev' = [sock |-> my_socket, op |-> OP_JOIN_ROOM,
              gs |-> clients[ci].game_state, res |-> "dispatched"]
    /\ out' = <<>>
    /\ LET s == join_room_check(
                    Took(Registry, "clients_mutex"),
                    f.data[2], f.data[1]).s
       IN locks' = [took |-> s.took, nest |-> s.nest]
    /\ wire' = wire
    /\ UNCHANGED <<clients, rooms, client_count, room_count, closes, crashed,
                   viol>>

\* what handle_move or handle_multi_move does with the frame f of my_socket up
\* to change_turn
MoveBegin(s, my_socket, f) ==
    IF f.op = OP_MOVE
    THEN handle_move_begin(s, SlotOfSocket(s, my_socket), f.data)
    ELSE handle_multi_move_begin(s, SlotOfSocket(s, my_socket), f.data)

\* the frame f of my_socket is a Move or MultiMove that is dispatched and
\* applied to a game
MoveStarts(s, my_socket, f) ==
    LET ci == SlotOfSocket(s, my_socket)
        msg == parse_message(f)
    IN /\ ci # -1
       /\ msg.r = 0
       /\ msg.op \in {OP_MOVE, OP_MULTI_MOVE}
       /\ validate_operation(s, ci, msg.op).r
       /\ MoveBegin(s, my_socket, f).inside

\* handle_move and handle_multi_move hold no lock: the thread has applied its
\* move and goes on with change_turn later
BeginMove(my_socket, f, more) ==
    LET ci == SlotOfSocket(Registry, my_socket)
        b == MoveBegin(Took(Registry, "clients_mutex"),
                       my_socket, f)
    IN
    /\ Commit(b.s)
    /\ thr' = [thr EXCEPT ![my_socket] =
                  [pc |-> "move", more |-> more, ri |-> b.ri, data |-> f.data,
                   op |-> f.op, gs |-> clients[ci].game_state]]
    /\ ev' = [sock |-> my_socket, op |-> f.op,
              gs |-> clients[ci].game_state, res |-> "dispatched"]
    /\ UNCHANGED viol

\* client_handler: recv() returns bytes, f is the first complete frame
RecvData(my_socket, f) ==
    /\ ~crashed
    /\ thr[my_socket].pc = "recv"
    /\ closes[my_socket] = 0
    /\ \E kind \in {"frame", "race"} :
          Scripted([kind |-> kind, sock |-> my_socket, f |-> f])
    /\ Advance
    /\ IF opening = <<>> THEN events < MaxEvents ELSE TRUE
    /\ events' = IF opening = <<>> THEN events + 1 ELSE events
    /\ IF JoinStarts(Registry, my_socket, f)
       THEN BeginJoin(my_socket, f, MaxBatch - 1)
       ELSE IF MoveStarts(Registry, my_socket, f)
       THEN BeginMove(my_socket, f, MaxBatch - 1)
       ELSE LET res == ProcessFrame(Registry, my_socket, f) IN
            /\ AfterFrame(my_socket, res, MaxBatch - 1)
            /\ ev' = res.ev
            /\ viol' = IF Violation(res.ev) THEN viol \cup {my_socket} ELSE viol
    /\ UNCHANGED <<hb, now, nextSock>>

\* client_handler: the next complete frame f of the bytes recv() returned
ProcNext(my_socket, f) ==
    /\ ~crashed
    /\ opening = <<>>
    /\ UNCHANGED opening
    /\ thr[my_socket].pc = "proc"
    /\ thr[my_socket].more > 0
    /\ events < MaxEvents
    /\ events' = events + 1
    /\ IF JoinStarts(Registry, my_socket, f)
       THEN BeginJoin(my_socket, f, thr[my_socket].more - 1)
       ELSE IF MoveStarts(Registry, my_socket, f)
       THEN BeginMove(my_socket, f, thr[my_socket].more - 1)
       ELSE LET res == ProcessFrame(Registry, my_socket, f) IN
            /\ AfterFrame(my_socket, res, thr[my_socket].more - 1)
            /\ ev' = res.ev
            /\ viol' = IF Violation(res.ev) THEN viol \cup {my_socket} ELSE viol
    /\ UNCHANGED <<hb, now, nextSock>>

\* handle_join_room: the thread takes rooms_mutex again, adds the player and
\* answers
JoinAdd(my_socket) ==
    /\ ~crashed
    /\ thr[my_socket].pc = "join"
    /\ LET j == thr[my_socket]
           s == handle_join_room_result(
                    Registry, j.ci, j.data,
                    join_room_add(Registry, j.data[2], j.data[1]))
       IN /\ AfterFrame(my_socket, [s |-> s, exit |-> FALSE], j.more)
          /\ ev' = [sock |-> my_socket, op |-> OP_JOIN_ROOM, gs |-> j.gs,
                    res |-> "dispatched"]
    /\ UNCHANGED <<opening, events, hb, now, nextSock, viol>>

\* handle_move, handle_multi_move: change_turn, the broadcast and the end of
\* the game
MoveEnd(my_socket) ==
    /\ ~crashed
    /\ thr[my_socket].pc = "move"
    /\ LET j == thr[my_socket]
           s == FinishMove(Registry, j.ri, j.data[1])
       IN /\ AfterFrame(my_socket, [s |-> s, exit |-> FALSE], j.more)
          /\ ev' = [sock |-> my_socket, op |-> j.op, gs |-> j.gs,
                    res |-> "dispatched"]
    /\ UNCHANGED <<opening, events, hb, now, nextSock, viol>>

\* client_handler: the bytes recv() returned are used up, back to the loop top
EndBatch(my_socket) ==
    /\ ~crashed
    /\ opening = <<>>
    /\ UNCHANGED opening
    /\ thr[my_socket].pc = "proc"
    /\ LET top == LoopTop(Registry, my_socket) IN
       /\ Commit(top.s)
       /\ thr' = [thr EXCEPT ![my_socket] =
                     [pc |-> IF top.exit THEN "dead" ELSE "recv", more |-> 0]]
    /\ ev' = NoEv
    /\ UNCHANGED <<events, hb, now, nextSock, viol>>

\* client_handler: message_buffer is full and no newline has arrived
RecvOverflow(my_socket) ==
    /\ ~crashed
    /\ opening = <<>>
    /\ UNCHANGED opening
    /\ thr[my_socket].pc = "recv"
    /\ closes[my_socket] = 0
    /\ events < MaxEvents
    /\ events' = events + 1
    /\ LET ci == AnySlotOfSocket(Registry, my_socket)
           reg == Took(Registry, "clients_mutex")
           s == IF ci # -1 THEN disconnect_malicious_client(reg, ci)
                ELSE reg
       IN /\ Commit(s)
          /\ thr' = [thr EXCEPT ![my_socket] =
                        [pc |-> IF s.blocked THEN "blocked" ELSE "dead", more |-> 0]]
    /\ ev' = [sock |-> my_socket, op |-> 0, gs |-> "", res |-> "overflow"]
    /\ UNCHANGED <<hb, now, nextSock, viol>>

\* client_handler: recv() returns 0 or -1, because the peer has gone (an event
\* from outside) or because the server has closed the descriptor
RecvFail(my_socket) ==
    /\ ~crashed
    /\ Scripted(Gone(my_socket))
    /\ Advance
    /\ thr[my_socket].pc = "recv"
    /\ IF closes[my_socket] = 0 /\ opening = <<>> THEN events < MaxEvents ELSE TRUE
    /\ events' = IF closes[my_socket] = 0 /\ opening = <<>>
                 THEN events + 1 ELSE events
    /\ LET ci == SlotOfSocket(Registry, my_socket)
           reg == Took(Registry, "clients_mutex")
       IN Commit(IF ci = -1 THEN reg
                 ELSE handle_client_disconnect(reg, ci, my_socket))
    /\ thr' = [thr EXCEPT ![my_socket] = [pc |-> "dead", more |-> 0]]
    /\ ev' = [sock |-> my_socket, op |-> 0, gs |-> "", res |-> "recvfail"]
    /\ UNCHANGED <<hb, now, nextSock, viol>>

\* heartbeat_thread: sleep(PING_INTERVAL_SEC) takes d seconds
SleepTimes == {PING_INTERVAL_SEC, LONG_DISCONNECT_THRESHOLD_SEC + 1}

HbSleep(d) ==
    /\ ~crashed
    /\ Scripted(Nap(d))
    /\ Advance
    /\ hb.pc = "sleep"
    /\ IF opening = <<>> THEN events < MaxEvents ELSE TRUE
    /\ events' = IF opening = <<>> THEN events + 1 ELSE events
    /\ now' = now + d
    /\ hb' = [hb EXCEPT !.pc = "scan"]
    /\ out' = <<>>
    /\ locks' = NoLocks
    /\ wire' = wire
    /\ ev' = NoEv
    /\ UNCHANGED <<clients, rooms, client_count, room_count, closes, thr,
                   nextSock, crashed, viol>>

\* heartbeat_thread: ping and check every client, collect the actions
HbSnapshot ==
    /\ ~crashed
    /\ UNCHANGED opening
    /\ hb.pc = "scan"
    /\ LET scan == HbScan(Took(Registry, "clients_mutex"), 0, <<>>)
           s == scan.s
           fin == check_room_pause_timeouts(s)
       IN IF scan.actions = <<>>
          THEN Commit(fin.s) /\ hb' = fin.hb
          ELSE Commit(s) /\ hb' = [pc |-> "act", actions |-> scan.actions]
    /\ ev' = [NoEv EXCEPT !.res = "heartbeat"]
    /\ UNCHANGED <<events, thr, now, nextSock, viol>>

\* heartbeat_thread: carry out the next collected action
HbAct ==
    /\ ~crashed
    /\ UNCHANGED opening
    /\ hb.pc = "act"
    /\ LET s == HbExecute(Registry, Head(hb.actions))
           fin == check_room_pause_timeouts(s)
       IN IF Len(hb.actions) > 1
          THEN Commit(s) /\ hb' = [hb EXCEPT !.actions = Tail(@)]
          ELSE Commit(fin.s) /\ hb' = fin.hb
    /\ ev' = NoEv
    /\ UNCHANGED <<events, thr, now, nextSock, viol>>

\* the frames that may arrive now: the one the opening lists next, or any
\* frame while outside events remain
Arriving ==
    IF opening # <<>> THEN {Head(opening).f}
    ELSE IF events < MaxEvents THEN Frames ELSE {}

Next ==
    \/ Accept
    \/ \E k \in Socks, f \in Arriving : RecvData(k, f)
    \/ \E k \in Socks, f \in Arriving : ProcNext(k, f)
    \/ \E k \in Socks : JoinAdd(k)
    \/ \E k \in Socks : MoveEnd(k)
    \/ \E k \in Socks : EndBatch(k)
    \/ \E k \in Socks : RecvOverflow(k)
    \/ \E k \in Socks : RecvFail(k)
    \/ \E d \in SleepTimes : HbSleep(d)
    \/ HbSnapshot
    \/ HbAct

Spec == Init /\ [][Next]_vars

----------------------------------------------------------------------------
(* Properties of the session state machine and of the registries           *)

\* the whitelist of each session game state as the specification lists it
SpecWhitelist ==
    [gs \in ClientGameStates |->
        CASE gs = "NOT_LOGGED_IN" ->
                {OP_LOGIN, OP_PING, OP_PONG, OP_RECONNECT_REQUEST, OP_ERROR}
          [] gs = "IN_LOBBY" ->
                {OP_CREATE_ROOM, OP_JOIN_ROOM, OP_LIST_ROOMS, OP_PING, OP_PONG,
                 OP_RECONNECT_REQUEST, OP_ERROR}
          [] gs = "IN_ROOM_WAITING" ->
                {OP_LEAVE_ROOM, OP_JOIN_ROOM, OP_LIST_ROOMS, OP_PING, OP_PONG,
                 OP_RECONNECT_REQUEST, OP_ERROR}
          [] gs = "IN_GAME" ->
                {OP_MOVE, OP_MULTI_MOVE, OP_LEAVE_ROOM, OP_LIST_ROOMS, OP_PING,
                 OP_PONG, OP_RECONNECT_REQUEST, OP_ERROR}]

\* the active slots: the sessions of the registry
Sessions == {i \in CSlots : clients[i].active}

\* C1: a decoded frame with a valid opcode reaches the dispatch switch of
\* client_handler if and only if its opcode is in the whitelist of the game
\* state its session had when the frame arrived; a frame whose opcode is
\* outside that whitelist is rejected and no handler runs for it.  (OP_ERROR
\* is in every whitelist and has no case of its own in the switch, whose
\* default branch answers it.)
C1_DispatchIffWhitelisted ==
    ev.res \in {"dispatched", "rejected"} =>
        /\ ev.gs \in ClientGameStates
        /\ ev.op \in ValidOpcodes
        /\ (ev.res = "dispatched") <=> (ev.op \in SpecWhitelist[ev.gs])
        /\ \A gs \in ClientGameStates, op \in ValidOpcodes :
              is_operation_allowed(gs, op) <=> (op \in SpecWhitelist[gs])

\* a session waiting in a room has had LeaveRoom dispatched
C1_Witness ==
    /\ ev.res = "dispatched"
    /\ ev.gs = "IN_ROOM_WAITING"
    /\ ev.op = OP_LEAVE_ROOM

\* C2: no two active logged-in slots hold the same client id
C2_UniqueIds ==
    \A i, j \in CSlots :
        (/\ i # j
         /\ clients[i].active /\ clients[i].logged_in
         /\ clients[j].active /\ clients[j].logged_in)
        => clients[i].client_id # clients[j].client_id

\* C3: every room whose state is ACTIVE has two players, a started game and
\* an active game
C3_ActiveRoomIsPlaying ==
    \A r \in RSlots :
        rooms[r].state = "ACTIVE" =>
            /\ rooms[r].players_count = 2
            /\ rooms[r].game_started
            /\ rooms[r].game.game_active

\* a paused game has been resumed by a reconnect and its room is ACTIVE again
C3_Witness ==
    /\ ev.res = "dispatched"
    /\ ev.op = OP_RECONNECT_REQUEST
    /\ \E n \in 1..Len(out) : out[n].op = OP_GAME_RESUMED
    /\ \E r \in RSlots : rooms[r].state = "ACTIVE" /\ rooms[r].name # ""

\* C4: for every room that is PAUSED there is exactly one session whose id
\* is the room's disconnected_player, and that session is DISCONNECTED,
\* RECONNECTING or TIMEOUT
C4_PausedRoomAwaitsItsPlayer ==
    \A r \in RSlots :
        (RoomInUse(rooms[r]) /\ rooms[r].state = "PAUSED") =>
            LET S == {i \in Sessions :
                        clients[i].client_id = rooms[r].disconnected_player}
            IN /\ Cardinality(S) = 1
               /\ \A i \in S :
                     clients[i].state \in {"DISCONNECTED", "RECONNECTING", "TIMEOUT"}

\* C5: every session whose current_room is not empty has a live room of that
\* name in the room registry, or is REMOVED
C5_CurrentRoomIsLive ==
    \A i \in Sessions :
        clients[i].current_room # "" =>
            \/ find_room(Registry, clients[i].current_room) # -1
            \/ clients[i].state = "REMOVED"

\* C6: an active session is NOT_LOGGED_IN if and only if it is not logged in;
\* so no step of another client moves a session that has not logged in out of
\* NOT_LOGGED_IN
C6_NotLoggedInIffAnonymous ==
    \A i \in Sessions :
        (clients[i].game_state = "NOT_LOGGED_IN") <=> ~clients[i].logged_in

\* C7: once a connection has committed a violation (a frame that fails to
\* decode, or an opcode the whitelist rejects) its descriptor is closed, no
\* active slot holds its descriptor any more, and no frame of that connection
\* is dispatched
C7_ViolationEndsConnection ==
    \A k \in viol :
        /\ closes[k] >= 1
        /\ SlotOfSocket(Registry, k) = -1
        /\ ~(ev.res = "dispatched" /\ ev.sock = k)

\* C8: the step that ends a connection for a malformed frame or a whitelist
\* rejection sends an Error frame on that connection
C8_ErrorBeforeClose ==
    Violation(ev) =>
        \E n \in 1..Len(out) : out[n].to = ev.sock /\ out[n].op = OP_ERROR

\* C9: when recv() fails on a connection whose session is logged in, the slot
\* stays active and logged in with the same id, room and game state, becomes
\* DISCONNECTED with disconnect_time recorded and socket -1; when the session
\* is anonymous its slot is made inactive at once
C9_RecvFailPreservesSession ==
    [][\A k \in Socks :
          (/\ thr[k].pc = "recv"
           /\ thr'[k].pc = "dead"
           /\ ev'.res = "recvfail"
           /\ ev'.sock = k
           /\ SlotOfSocket(Registry, k) # -1)
          => LET ci == SlotOfSocket(Registry, k) IN
             IF clients[ci].logged_in
             THEN /\ clients'[ci].active
                  /\ clients'[ci].logged_in
                  /\ clients'[ci].client_id = clients[ci].client_id
                  /\ clients'[ci].current_room = clients[ci].current_room
                  /\ clients'[ci].game_state = clients[ci].game_state
                  /\ clients'[ci].state = "DISCONNECTED"
                  /\ clients'[ci].disconnect_time = now
                  /\ clients'[ci].disconnect_time > 0
                  /\ clients'[ci].socket = -1
                  /\ closes'[k] >= 1
             ELSE ~clients'[ci].active
      ]_vars

\* recv() has failed on a player in a game, whose session is kept
C9_Witness ==
    /\ ev.res = "recvfail"
    /\ \E i \in Sessions :
          /\ clients[i].logged_in
          /\ clients[i].state = "DISCONNECTED"
          /\ clients[i].socket = -1
          /\ clients[i].game_state = "IN_GAME"
          /\ closes[ev.sock] = 1

\* C10: a sweep of the heartbeat turns a CONNECTED logged-in session into
\* DISCONNECTED exactly when its missed_pongs reaches 3, and then
\* disconnect_time is recorded, the descriptor is closed and socket is -1;
\* no step of the heartbeat makes a session DISCONNECTED below 3 missed PONGs;
\* a PONG that is dispatched sets missed_pongs of its session to 0
C10_DisconnectAfterThreeMissedPongs ==
    [][/\ (hb' # hb /\ hb.pc \in {"scan", "act"}) =>
            \A i \in CSlots :
                (/\ clients[i].active /\ clients[i].logged_in
                 /\ clients[i].state = "CONNECTED")
                => /\ (clients'[i].state = "DISCONNECTED")
                        <=> (clients'[i].missed_pongs >= 3
                             /\ clients'[i].missed_pongs # clients[i].missed_pongs)
                   /\ clients'[i].state = "DISCONNECTED" =>
                        /\ clients'[i].disconnect_time = now
                        /\ clients'[i].socket = -1
                        /\ clients[i].socket \in Socks => closes'[clients[i].socket] >= 1
       /\ \A k \in Socks :
            (/\ thr[k].pc \in {"recv", "proc"}
             /\ ev'.res = "dispatched" /\ ev'.op = OP_PONG /\ ev'.sock = k
             /\ <<thr[k], events>> # <<thr'[k], events'>>)
            => clients'[SlotOfSocket(Registry, k)].missed_pongs = 0
      ]_vars

\* the third sweep in a row without a PONG has disconnected a session
C10_Witness ==
    /\ ev.res = "heartbeat"
    /\ \E i \in Sessions :
          /\ clients[i].logged_in
          /\ clients[i].state = "DISCONNECTED"
          /\ clients[i].missed_pongs = 3
          /\ clients[i].socket = -1

\* the heartbeat thread is about to carry out the collected removal of a
\* session ci that is a member of a room that exists
LongDisconnectOf(ci) ==
    /\ hb.pc = "act"
    /\ Head(hb.actions).should_remove
    /\ Head(hb.actions).current_room # ""
    /\ ci = find_client(Registry, Head(hb.actions).client_id)
    /\ ci # -1
    /\ clients[ci].state # "RECONNECTING"
    /\ find_room(Registry, clients[ci].current_room) # -1

\* the other member of the room of session ci, -1 when there is none
SurvivorOf(ci) ==
    LET room == rooms[find_room(Registry, clients[ci].current_room)]
        winner == IF room.player1 = clients[ci].client_id
                  THEN room.player2 ELSE room.player1
    IN IF winner = "" THEN -1 ELSE find_client(Registry, winner)

\* C11: when the heartbeat carries out the long disconnect of a member of a
\* room, the room is destroyed, the timed-out session is REMOVED, and the
\* surviving member, whatever its connection state, is sent
\* GAME_END(winner, opponent_timeout) and has its current_room cleared
C11_LongDisconnectEndsRoom ==
    [][\A ci \in CSlots :
          (LongDisconnectOf(ci) /\ hb' # hb) =>
              LET ri == find_room(Registry, clients[ci].current_room)
                  wc == SurvivorOf(ci)
              IN /\ rooms'[ri] = ZeroRoom
                 /\ find_room([Registry EXCEPT !.rooms = rooms'],
                              clients[ci].current_room) = -1
                 /\ clients'[ci].state = "REMOVED"
                 /\ wc # -1 =>
                      /\ clients'[wc].current_room = ""
                      /\ \E n \in 1..Len(out') :
                            /\ out'[n].op = OP_GAME_END
                            /\ out'[n].data = <<clients[wc].client_id,
                                                "opponent_timeout">>
      ]_vars

----------------------------------------------------------------------------
(* The heartbeat thread never stops: once the outside events of a run are  *)
(* used up it goes on sleeping and sweeping.  The clock stops after        *)
(* QuietSweeps further sweeps, LONG_DISCONNECT_THRESHOLD_SEC + 1 seconds   *)
(* apart: three for the missed PONGs of a silent peer, one for its timeout.*)

QuietSweeps == 4

\* heartbeat_thread: sleep(PING_INTERVAL_SEC) when nothing else happens any more
HbSleepQuiet ==
    /\ ~crashed
    /\ opening = <<>>
    /\ hb.pc = "sleep"
    /\ events >= MaxEvents
    /\ events' = IF events < MaxEvents + QuietSweeps THEN events + 1 ELSE events
    /\ now' = IF events < MaxEvents + QuietSweeps
              THEN now + LONG_DISCONNECT_THRESHOLD_SEC + 1 ELSE now
    /\ hb' = [hb EXCEPT !.pc = "scan"]
    /\ out' = <<>>
    /\ locks' = NoLocks
    /\ wire' = wire
    /\ ev' = NoEv
    /\ UNCHANGED <<clients, rooms, client_count, room_count, closes, thr,
                   nextSock, crashed, viol, opening>>

NextFair ==
    \/ Next
    \/ HbSleepQuiet

\* heartbeat_thread can take its next step: it is at sleep() with time left
\* to pass, or in one of its two loops
HbCanRun ==
    /\ ~crashed
    /\ \/ hb.pc \in {"scan", "act"}
       \/ /\ hb.pc = "sleep"
          /\ IF opening = <<>> THEN TRUE ELSE Head(opening).kind = "sleep"

\* the values of hb with action_count = n: the place in the loop and the
\* actions[] still to do
HbValues(n) ==
    [pc : {"sleep", "scan", "act", "deadlocked"},
     actions : [1..n -> [client_id : PlayerNames \cup {""},
                         should_remove : BOOLEAN,
                         should_handle_disconnect : BOOLEAN,
                         current_room : RoomNames \cup {""}]]]

\* a step of heartbeat_thread, whichever it is: HbSleep, HbSleepQuiet,
\* HbSnapshot and HbAct are the only actions that change hb, each of them
\* changes it, and one of them is enabled exactly when HbCanRun holds
HbTurn ==
    /\ HbCanRun
    /\ \E n \in 0..MAX_CLIENTS : hb' \in HbValues(n)
    /\ hb' # hb

\* the heartbeat thread is scheduled again and again
\* runs in which a connection is lost: in the lobby, in a waiting room (once
\* its peer goes away) and in a game
InitFair == Init /\ opening \in {OpenLost, OpenWaiting, OpenDropped}

FairSpec == InitFair /\ [][NextFair]_vars /\ WF_hb(HbTurn)

\* hb changes only in steps of HbTurn
HbTurnIsHeartbeat == [][hb' # hb => HbTurn]_vars

\* player p has a logged-in session that is DISCONNECTED or TIMEOUT
Lost(p) ==
    \E i \in Sessions :
        /\ clients[i].logged_in
        /\ clients[i].client_id = p
        /\ clients[i].state \in {"DISCONNECTED", "TIMEOUT"}

\* the clock has stopped only after every session had the time to time out
ClockStopsLate ==
    events = MaxEvents + QuietSweeps =>
        \A i \in Sessions :
            (clients[i].logged_in /\ clients[i].state = "DISCONNECTED")
                => now - clients[i].disconnect_time > LONG_DISCONNECT_THRESHOLD_SEC

\* C12: under a fair heartbeat a logged-in session that is DISCONNECTED or
\* TIMEOUT does not stay so forever: it is REMOVED, or it has reconnected
C12_LostSessionIsRemoved ==
    \A p \in PlayerNames : (Lost(p) /\ ~crashed) ~> (~Lost(p) \/ crashed)

\* C13: a session whose state is REMOVED is destroyed: its slot is inactive,
\* find_client does not return it, and no slot with its id stands in the way
\* of a Login with that id
C13_RemovedSessionIsDestroyed ==
    \A i \in CSlots :
        clients[i].state = "REMOVED" =>
            /\ ~clients[i].active
            /\ find_client(Registry, clients[i].client_id) # i
            /\ ~(clients[i].active /\ clients[i].logged_in)

\* player p has a session that a ReconnectRequest may take over
Reconnectable(p) ==
    \E i \in Sessions :
        /\ clients[i].client_id = p
        /\ clients[i].state \in {"DISCONNECTED", "TIMEOUT"}

\* the ReconnectRequest payloads: "player" and "room,player"
ReconnectPayloads == Payloads(OP_RECONNECT_REQUEST)

\* C14: whatever ReconnectRequest an open connection sends, RECONNECT_OK is
\* sent only if the named player has a DISCONNECTED or TIMEOUT session; when
\* it has none, the requester is sent RECONNECT_FAIL and no slot and no
\* descriptor is touched
C14_ReconnectOnlyIfLost ==
    \A k \in Socks, data \in ReconnectPayloads :
        (closes[k] = 0 /\ SlotOfSocket(Registry, k) # -1) =>
            LET res == handle_reconnect_request(
                          Registry, SlotOfSocket(Registry, k), data)
                player_name == data[Len(data)]
            IN /\ (\E n \in 1..Len(res.out) : res.out[n].op = OP_RECONNECT_OK)
                      => Reconnectable(player_name)
               /\ ~Reconnectable(player_name) =>
                      /\ \E n \in 1..Len(res.out) :
                            /\ res.out[n].to = k
                            /\ res.out[n].op = OP_RECONNECT_FAIL
                      /\ res.clients = clients
                      /\ res.rooms = rooms
                      /\ res.closes = closes

\* a ReconnectRequest naming a CONNECTED session has been refused
C14_Witness ==
    /\ ev.res = "dispatched"
    /\ ev.op = OP_RECONNECT_REQUEST
    /\ Len(out) = 1
    /\ out[1].to = ev.sock
    /\ out[1].op = OP_RECONNECT_FAIL
    /\ out[1].data[1] = "Cannot reconnect from state"
    /\ \E i \in Sessions : clients[i].state = "CONNECTED" /\ clients[i].logged_in
    /\ closes = [k \in Socks |-> 0]

\* the session a hand-over to connection k has kept, looking like new
HandedOver(s, oc, k) ==
    /\ s.clients[oc].state = "CONNECTED"
    /\ s.clients[oc].active
    /\ s.clients[oc].missed_pongs = 0
    /\ s.clients[oc].disconnect_time = 0
    /\ s.clients[oc].socket = k
    /\ s.closes[k] = 0

\* C15: a ReconnectRequest of an open connection that names a DISCONNECTED or
\* TIMEOUT session leaves that session CONNECTED and active, with
\* missed_pongs 0, disconnect_time 0 and the socket of the new connection,
\* which is open; the slot the connection arrived on is inactive and has
\* lost that socket; and so it is after every step that has answered a
\* ReconnectRequest with RECONNECT_OK
C15_HandOver ==
    /\ \A k \in Socks, data \in ReconnectPayloads :
          LET tc == SlotOfSocket(Registry, k)
              oc == find_client(Registry, data[Len(data)])
          IN (/\ closes[k] = 0
              /\ tc # -1
              /\ oc # -1
              /\ clients[oc].state \in {"DISCONNECTED", "TIMEOUT"})
             => LET res == handle_reconnect_request(Registry, tc, data) IN
                /\ HandedOver(res, oc, k)
                /\ tc # oc
                /\ ~res.clients[tc].active
                /\ res.clients[tc].socket # k
                /\ res.clients[oc].socket # clients[oc].socket
    /\ (/\ ev.res = "dispatched"
        /\ ev.op = OP_RECONNECT_REQUEST
        /\ \E n \in 1..Len(out) : out[n].op = OP_RECONNECT_OK)
       => /\ SlotOfSocket(Registry, ev.sock) # -1
          /\ HandedOver(Registry, SlotOfSocket(Registry, ev.sock), ev.sock)

\* a session the heartbeat had disconnected after three missed PONGs has been
\* handed over to a new connection
C15_Witness ==
    /\ ev.res = "dispatched"
    /\ ev.op = OP_RECONNECT_REQUEST
    /\ \E n \in 1..Len(out) : out[n].op = OP_RECONNECT_OK
    /\ clients[SlotOfSocket(Registry, ev.sock)].client_id = "a"
    /\ \E i \in Sessions :
          /\ clients[i].client_id = "b"
          /\ clients[i].state = "DISCONNECTED"
          /\ clients[i].missed_pongs = MAX_MISSED_PONGS

\* the opcodes of the frames of o sent over descriptor k, in order
OpsTo(o, k) ==
    LET sent == SelectSeq(o, LAMBDA m : m.to = k)
    IN [n \in 1..Len(sent) |-> sent[n].op]

\* C16: a ReconnectRequest "room,player" of an open connection, for a
\* DISCONNECTED or TIMEOUT session that is IN_GAME in that room and listed as
\* one of its players while the room is PAUSED, once the handler returns,
\* leaves the room ACTIVE with disconnected_player empty, sends the
\* reconnector RECONNECT_OK, GAME_RESUMED, GAME_STATE in this order, and
\* sends a CONNECTED opponent PLAYER_RECONNECTED, then GAME_RESUMED; every
\* step that has sent GAME_RESUMED has done so
C16_ResumePausedGame ==
    /\ \A k \in Socks, r \in RoomNames, p \in PlayerNames :
          LET tc == SlotOfSocket(Registry, k)
              oc == find_client(Registry, p)
              ri == find_room(Registry, r)
          IN (/\ closes[k] = 0
              /\ tc # -1
              /\ oc # -1
              /\ clients[oc].state \in {"DISCONNECTED", "TIMEOUT"}
              /\ clients[oc].game_state = "IN_GAME"
              /\ clients[oc].current_room = r
              /\ ri # -1
              /\ rooms[ri].state = "PAUSED"
              /\ p \in {rooms[ri].player1, rooms[ri].player2})
             => LET res == handle_reconnect_request(Registry, tc, <<r, p>>)
                    other_player == IF rooms[ri].player1 = p
                                    THEN rooms[ri].player2 ELSE rooms[ri].player1
                    other == IF other_player = "" THEN -1
                             ELSE find_client(res, other_player)
                IN ~res.blocked =>
                   /\ res.rooms[ri].state = "ACTIVE"
                   /\ res.rooms[ri].disconnected_player = ""
                   /\ OpsTo(res.out, k) =
                         <<OP_RECONNECT_OK, OP_GAME_RESUMED, OP_GAME_STATE>>
                   /\ (other # -1 /\ res.clients[other].state = "CONNECTED"
                       /\ res.clients[other].socket \in Socks
                       /\ res.closes[res.clients[other].socket] = 0)
                      => OpsTo(res.out, res.clients[other].socket) =
                            <<OP_PLAYER_RECONNECTED, OP_GAME_RESUMED>>
    /\ (/\ ev.res = "dispatched"
        /\ ev.op = OP_RECONNECT_REQUEST
        /\ \E n \in 1..Len(out) : out[n].op = OP_GAME_RESUMED)
       => /\ OpsTo(out, ev.sock) =
                <<OP_RECONNECT_OK, OP_GAME_RESUMED, OP_GAME_STATE>>
          /\ \E ri \in RSlots :
                /\ rooms[ri].name = out[1].data[1]
                /\ rooms[ri].state = "ACTIVE"
                /\ rooms[ri].disconnected_player = ""

\* a has come back to the paused game in r1 and b has been told
C16_Witness ==
    /\ ev.res = "dispatched"
    /\ ev.op = OP_RECONNECT_REQUEST
    /\ Len(out) = 5
    /\ OpsTo(out, ev.sock) = <<OP_RECONNECT_OK, OP_GAME_RESUMED, OP_GAME_STATE>>
    /\ OpsTo(out, 2) = <<OP_PLAYER_RECONNECTED, OP_GAME_RESUMED>>
    /\ out[4].data = <<"r1", "a">>

\* the place session c holds is still there: it is in the lobby, or the room
\* named in its current_room exists and, for a player IN_GAME, is PAUSED or
\* ACTIVE
PlaceKept(c) ==
    \/ c.game_state = "IN_LOBBY"
    \/ /\ c.current_room # ""
       /\ find_room(Registry, c.current_room) # -1
       /\ c.game_state = "IN_GAME" =>
             rooms[find_room(Registry, c.current_room)].state
                 \in {"PAUSED", "ACTIVE"}

\* C17: a step that hands a DISCONNECTED or TIMEOUT session over to the
\* connection of a ReconnectRequest leaves game_state and current_room of the
\* session as they were, whenever the room named in its current_room still
\* exists in a state that can be resumed
C17_ReconnectKeepsPlace ==
    [][\A oc \in CSlots :
          (/\ ev'.res = "dispatched"
           /\ ev'.op = OP_RECONNECT_REQUEST
           /\ clients[oc].active
           /\ clients[oc].state \in {"DISCONNECTED", "TIMEOUT"}
           /\ clients'[oc].state = "CONNECTED"
           /\ clients'[oc].socket = ev'.sock
           /\ PlaceKept(clients[oc]))
          => /\ clients'[oc].game_state = clients[oc].game_state
             /\ clients'[oc].current_room = clients[oc].current_room
      ]_vars

\* the frame [to, op, data] is among the frames of o
Sent(o, to, op, data) ==
    \E n \in 1..Len(o) : o[n] = [to |-> to, op |-> op, data |-> data]

\* what LeaveRoom "room,player_name" does when the session on connection k
\* sends it for the two-player room it is a member of, once the handler
\* returns: the room is gone, both members are IN_LOBBY with current_room
\* empty, the sender is sent ROOM_LEFT "room" and the other member, if its
\* connection is open, ROOM_LEFT "room,sender"
LeaveRoomEndsRoom(k, player_name) ==
    LET ci == SlotOfSocket(Registry, k)
        room_name == clients[ci].current_room
        ri == find_room(Registry, room_name)
        me == clients[ci].client_id
        other_name == IF rooms[ri].player1 = me
                      THEN rooms[ri].player2 ELSE rooms[ri].player1
        oi == find_client(Registry, other_name)
    IN (/\ closes[k] = 0
        /\ ci # -1
        /\ is_operation_allowed(clients[ci].game_state, OP_LEAVE_ROOM)
        /\ room_name # ""
        /\ ri # -1
        /\ rooms[ri].players_count = 2
        /\ me \in {rooms[ri].player1, rooms[ri].player2}
        /\ other_name # me
        /\ oi # -1)
       => LET res == handle_leave_room(Registry, ci, <<room_name, player_name>>)
          IN ~res.blocked =>
             /\ res.rooms[ri] = ZeroRoom
             /\ find_room(res, room_name) = -1
             /\ res.clients[ci].current_room = ""
             /\ res.clients[ci].game_state = "IN_LOBBY"
             /\ res.clients[oi].current_room = ""
             /\ res.clients[oi].game_state = "IN_LOBBY"
             /\ Sent(res.out, k, OP_ROOM_LEFT, <<room_name>>)
             /\ (clients[oi].socket \in Socks /\ closes[clients[oi].socket] = 0)
                => Sent(res.out, clients[oi].socket, OP_ROOM_LEFT,
                        <<room_name, me>>)

CreatePayloads == {<<n, r>> : n \in PlayerNames, r \in RoomNames \cup {"r3"}}

\* room is as create_room leaves a slot for room_name and creator
FreshRoom(room, room_name, creator) ==
    /\ room.name = room_name
    /\ room.owner = creator
    /\ room.state = "WAITING"
    /\ room.players_count = 0
    /\ room.player1 = ""
    /\ room.player2 = ""
    /\ ~room.game_started

\* C19: a successful CreateRoom "player,room" fills one free slot with a room
\* in state WAITING owned by the named player, with players_count 0 and both
\* player slots empty, and changes no session (the creator stays IN_LOBBY with
\* the current_room it had); when a live room has that name or no slot is free
\* the only answer is ROOM_FAIL and nothing changes; no two live rooms share a
\* name
C19_CreateRoom ==
    /\ \A i, j \in RSlots :
          (i # j /\ RoomInUse(rooms[i]) /\ RoomInUse(rooms[j]))
          => rooms[i].name # rooms[j].name
    /\ \A k \in Socks, data \in CreatePayloads :
          LET ci == SlotOfSocket(Registry, k) IN
          (/\ closes[k] = 0
           /\ ci # -1
           /\ is_operation_allowed(clients[ci].game_state, OP_CREATE_ROOM))
          => LET res == handle_create_room(Registry, ci, data)
                 created == \E n \in 1..Len(res.out) :
                               res.out[n].op = OP_ROOM_CREATED
                 refused == \/ find_room(Registry, data[2]) # -1
                            \/ \A i \in RSlots : RoomInUse(rooms[i])
             IN ~res.blocked =>
                /\ created =>
                     /\ res.out = <<[to |-> k, op |-> OP_ROOM_CREATED,
                                     data |-> <<data[2]>>]>>
                     /\ \E i \in RSlots :
                           /\ ~RoomInUse(rooms[i])
                           /\ FreshRoom(res.rooms[i], data[2], data[1])
                           /\ \A j \in RSlots \ {i} : res.rooms[j] = rooms[j]
                     /\ res.room_count = room_count + 1
                     /\ res.clients = clients
                     /\ clients[ci].game_state = "IN_LOBBY"
                     /\ ~refused
                /\ refused =>
                     /\ Len(res.out) = 1
                     /\ res.out[1].to = k
                     /\ res.out[1].op = OP_ROOM_FAIL
                     /\ res.clients = clients
                     /\ res.rooms = rooms
                     /\ res.room_count = room_count
                     /\ res.client_count = client_count
                     /\ res.closes = closes

\* a CreateRoom was answered ROOM_CREATED while another room was live: the new
\* room waits with an owner and no member, its creator is in the lobby
C19_Witness ==
    /\ ev.res = "dispatched"
    /\ ev.op = OP_CREATE_ROOM
    /\ out = <<[to |-> ev.sock, op |-> OP_ROOM_CREATED, data |-> <<"r2">>]>>
    /\ find_room(Registry, "r1") # -1
    /\ find_room(Registry, "r2") # -1
    /\ FreshRoom(rooms[find_room(Registry, "r2")], "r2",
                 clients[SlotOfSocket(Registry, ev.sock)].client_id)
    /\ clients[SlotOfSocket(Registry, ev.sock)].game_state = "IN_LOBBY"
    /\ clients[SlotOfSocket(Registry, ev.sock)].current_room = ""

\* what JoinRoom "player,room" does when the session on connection k sends it
\* and is answered ROOM_JOINED, once the handler returns: the sender's id is in
\* the first free player slot; with one member only the sender changes, to
\* IN_ROOM_WAITING, and the room is WAITING; with two members the game is
\* that of init_game, the room is ACTIVE, both members are IN_GAME and both
\* are sent GAME_START and then GAME_STATE
JoinRoomEffect(k, data) ==
    LET ci == SlotOfSocket(Registry, k)
        me == clients[ci].client_id
        room_name == data[2]
        ri == find_room(Registry, room_name)
    IN (/\ closes[k] = 0
        /\ ci # -1
        /\ is_operation_allowed(clients[ci].game_state, OP_JOIN_ROOM))
       => LET res == handle_join_room(Registry, ci, data)
              joined == \E n \in 1..Len(res.out) : res.out[n].op = OP_ROOM_JOINED
              room == res.rooms[ri]
          IN (~res.blocked /\ joined) =>
             /\ ri # -1
             /\ IF rooms[ri].player1 = ""
                THEN room.player1 = me /\ room.player2 = rooms[ri].player2
                ELSE room.player2 = me /\ room.player1 = rooms[ri].player1
             /\ res.clients[ci].current_room = room_name
             /\ room.players_count \in {1, 2}
             /\ room.players_count = 1 =>
                  /\ res.clients[ci].game_state = "IN_ROOM_WAITING"
                  /\ \A i \in CSlots \ {ci} : res.clients[i] = clients[i]
                  /\ room.state = "WAITING"
                  /\ ~room.game_started
             /\ room.players_count = 2 =>
                  /\ room.game = init_game(room.player1, room.player2)
                  /\ room.game_started
                  /\ room.state = "ACTIVE"
                  /\ ~res.crashed
                  /\ \A p \in {room.player1, room.player2} :
                        LET pi == find_client(res, p) IN
                        /\ pi # -1
                        /\ res.clients[pi].game_state = "IN_GAME"
                        /\ \E n \in 1..Len(res.out), m \in 1..Len(res.out) :
                              /\ n < m
                              /\ res.out[n].to = res.clients[pi].socket
                              /\ res.out[n].op = OP_GAME_START
                              /\ res.out[m].to = res.clients[pi].socket
                              /\ res.out[m].op = OP_GAME_STATE

\* C20: a JoinRoom answered ROOM_JOINED puts the sender in the first free
\* slot; if the room then has one member only the sender moves, to
\* IN_ROOM_WAITING, and the room stays WAITING; if it has two the game is
\* initialised, the room is ACTIVE, both members are IN_GAME and both receive
\* GAME_START followed by GAME_STATE
C20_JoinRoom ==
    \A k \in Socks, data \in Payloads(OP_JOIN_ROOM) : JoinRoomEffect(k, data)

\* the only frame of o is ROOM_FAIL "Room is full" to k
OnlyRoomIsFull(o, k) ==
    o = <<[to |-> k, op |-> OP_ROOM_FAIL, data |-> <<"Room is full">>]>>

\* C21: a JoinRoom for a room that holds two members is answered with
\* ROOM_FAIL "Room is full" and changes neither the room nor the sender's
\* current_room and game_state, whether the room was full when the frame
\* arrived or was filled by another connection's JoinRoom while the sender's
\* handler was inside join_room; so ROOM_JOINED is sent only for a room that
\* had a free place
C21_FullRoomRefusesJoin ==
    /\ [](\A k \in Socks, data \in Payloads(OP_JOIN_ROOM) :
            LET ci == SlotOfSocket(Registry, k)
                ri == find_room(Registry, data[2])
            IN (/\ closes[k] = 0
                /\ ci # -1
                /\ is_operation_allowed(clients[ci].game_state, OP_JOIN_ROOM)
                /\ ~RoomsMutexHeld
                /\ ri # -1
                /\ rooms[ri].players_count = 2)
               => LET res == handle_join_room(Registry, ci, data) IN
                  /\ OnlyRoomIsFull(res.out, k)
                  /\ res.rooms = rooms
                  /\ res.clients = clients)
    /\ [][\A k \in Socks :
            (/\ thr[k].pc = "join"
             /\ thr'[k].pc # "join"
             /\ ~RoomsMutexHeld
             /\ find_room(Registry, thr[k].data[2]) # -1
             /\ rooms[find_room(Registry, thr[k].data[2])].players_count = 2)
            => /\ OnlyRoomIsFull(out', k)
               /\ rooms' = rooms
               /\ clients'[thr[k].ci].current_room = clients[thr[k].ci].current_room
               /\ clients'[thr[k].ci].game_state = clients[thr[k].ci].game_state
         ]_vars

\* the session of player p can be reached: it is active and its descriptor is
\* open
Reachable(s, p) ==
    LET pi == find_client(s, p) IN
    /\ pi # -1
    /\ s.clients[pi].socket \in Socks
    /\ s.closes[s.clients[pi].socket] = 0

\* C22: a Move "room,player,..." for a started game whose player is not the
\* game's current_turn is answered with INVALID_MOVE alone and leaves every
\* room as it was; a Move that validate_move accepts is applied, current_turn
\* passes to the other player, and GAME_STATE is sent to every member that can
\* be reached
C22_MoveTurn ==
    \A k \in Socks, data \in Payloads(OP_MOVE) :
       LET ci == SlotOfSocket(Registry, k)
           ri == find_room(Registry, data[1])
       IN (/\ closes[k] = 0
           /\ ci # -1
           /\ is_operation_allowed(clients[ci].game_state, OP_MOVE)
           /\ clients[ci].logged_in
           /\ clients[ci].current_room # ""
           /\ ri # -1
           /\ rooms[ri].game_started)
          => LET res == handle_move(Registry, ci, data)
                 room == rooms[ri]
                 game == room.game
                 moved == apply_move(game, data[3])
                 other == IF game.current_turn = game.player1
                          THEN game.player2 ELSE game.player1
             IN /\ data[2] # game.current_turn =>
                     /\ Len(res.out) = 1
                     /\ res.out[1].to = k
                     /\ res.out[1].op = OP_INVALID_MOVE
                     /\ res.rooms = rooms
                /\ (validate_move(game, data[3], data[2]) /\ ~res.blocked) =>
                     /\ \A p \in {room.player1, room.player2} :
                           Reachable(Registry, p) =>
                              \E n \in 1..Len(res.out) :
                                 /\ res.out[n].op = OP_GAME_STATE
                                 /\ res.out[n].to =
                                       clients[find_client(Registry, p)].socket
                     /\ ~check_game_over(moved).over =>
                           /\ res.rooms[ri].game =
                                 [moved EXCEPT !.current_turn = other]
                           /\ res.rooms[ri].state = room.state
                           /\ \A n \in 1..Len(res.out) :
                                 res.out[n].op = OP_GAME_STATE

\* a's first move in r1 was applied: it is b's turn and both players were sent
\* GAME_STATE
C22_Witness ==
    /\ ev.res = "dispatched"
    /\ ev.op = OP_MOVE
    /\ ev.sock = 1
    /\ out = <<[to |-> 1, op |-> OP_GAME_STATE, data |-> <<"r1">>],
               [to |-> 2, op |-> OP_GAME_STATE, data |-> <<"r1">>]>>
    /\ find_room(Registry, "r1") # -1
    /\ rooms[find_room(Registry, "r1")].game.player1 = "a"
    /\ rooms[find_room(Registry, "r1")].game.current_turn = "b"

\* the handler thread of k is between apply_move and change_turn on room slot ri
InsideMove(k, ri) == thr[k].pc = "move" /\ thr[k].ri = ri

\* C23: no two handler threads are inside the validate-apply-change_turn
\* section of handle_move or handle_multi_move for the same room at once
C23_OneMoveAtATime ==
    \A j \in Socks, k \in Socks, ri \in RSlots :
       (InsideMove(j, ri) /\ InsideMove(k, ri)) => j = k

\* what the Move or MultiMove frame [op, data] from connection k does when it
\* leaves a colour without pieces, once the handler returns: every member that
\* can be reached is sent GAME_STATE and then GAME_END "winner,no_pieces",
\* every member is IN_LOBBY with current_room empty, and the room is gone
LastMoveEndsGame(k, op, data) ==
    LET ci == SlotOfSocket(Registry, k)
        b == IF op = OP_MOVE THEN handle_move_begin(Registry, ci, data)
             ELSE handle_multi_move_begin(Registry, ci, data)
    IN (/\ closes[k] = 0
        /\ ci # -1
        /\ is_operation_allowed(clients[ci].game_state, op)
        /\ b.inside
        /\ check_game_over(b.s.rooms[b.ri].game).over)
       => LET res == FinishMove(b.s, b.ri, data[1])
              room == rooms[b.ri]
              winner == check_game_over(b.s.rooms[b.ri].game).winner
          IN ~res.blocked =>
             /\ res.rooms[b.ri] = ZeroRoom
             /\ find_room(res, room.name) = -1
             /\ \A p \in {room.player1, room.player2} :
                   LET pi == find_client(Registry, p) IN
                   pi # -1 =>
                      /\ res.clients[pi].game_state = "IN_LOBBY"
                      /\ res.clients[pi].current_room = ""
                      /\ Reachable(Registry, p) =>
                            \E n \in 1..Len(res.out), m \in 1..Len(res.out) :
                               /\ n < m
                               /\ res.out[n].to = clients[pi].socket
                               /\ res.out[n].op = OP_GAME_STATE
                               /\ res.out[m] = [to |-> clients[pi].socket,
                                                op |-> OP_GAME_END,
                                                data |-> <<winner, "no_pieces">>]

\* C24: a Move or MultiMove that leaves one side with no pieces has GAME_STATE
\* and then GAME_END "winner,no_pieces" sent to both members, after which both
\* members are IN_LOBBY with no current_room and the room is no longer in the
\* registry
C24_LastMoveEndsGame ==
    \A k \in Socks, op \in {OP_MOVE, OP_MULTI_MOVE} :
       \A data \in Payloads(op) : LastMoveEndsGame(k, op, data)

----------------------------------------------------------------------------
(* Lock order                                                              *)

\* C25: no thread ever acquires the sessions-registry lock (clients_mutex)
\* while it holds the rooms-registry lock (rooms_mutex): no step of a handler,
\* of the reconnect handler or of the heartbeat thread records the pair
\* <<rooms_mutex, clients_mutex>>, so the two locks are never taken in opposite
\* orders
C25_LockOrder == <<"rooms_mutex", "clients_mutex">> \notin locks.nest

\* a handler thread has run the first half of join_room, which takes
\* rooms_mutex and then clients_mutex, one after the other
C25_Witness ==
    /\ JoinPending
    /\ locks.took = {"rooms_mutex", "clients_mutex"}
    /\ locks.nest = {}

----------------------------------------------------------------------------
(* Deadlock freedom                                                        *)

\* C26: no thread blocks for ever on a lock: no step locks a registry lock the
\* running thread already holds, so the heartbeat thread never stops inside
\* a sweep and no handler thread waits for a lock that is never released
C26_NoThreadBlocksForEver ==
    /\ \A m \in {"clients_mutex", "rooms_mutex"} : <<m, m>> \notin locks.nest
    /\ hb.pc # "deadlocked"
    /\ \A k \in Socks : thr[k].pc # "blocked"

----------------------------------------------------------------------------
(* Stale heartbeat actions                                                 *)

\* the session the next collected action of the heartbeat thread names has
\* disappeared, or has started or completed a reconnect since the snapshot
StaleAction ==
    /\ hb.pc = "act"
    /\ LET ci == find_client(Registry, Head(hb.actions).client_id) IN
       \/ ci = -1
       \/ clients[ci].state \in {"RECONNECTING", "CONNECTED"}

\* C27: a heartbeat action recorded in the snapshot is skipped when, by the
\* time it is carried out, its session has disappeared or has started or
\* completed a reconnect: the step that carries it out changes no session and
\* no room (the session is not Removed, its room neither paused nor
\* finished), closes no descriptor and sends nothing
C27_StaleActionSkipped ==
    [][(StaleAction /\ hb' # hb)
         => /\ clients' = clients
            /\ rooms' = rooms
            /\ closes' = closes
            /\ out' = <<>>]_vars

----------------------------------------------------------------------------
(* The pause of a game                                                     *)

\* the heartbeat thread is about to handle the lost connection of the session
\* in slot ci, which has not reconnected and is a member of the room in slot ri
HandlesDisconnectOf(ci, ri) ==
    /\ hb.pc = "act"
    /\ Head(hb.actions).should_handle_disconnect
    /\ ~Head(hb.actions).should_remove
    /\ Head(hb.actions).current_room # ""
    /\ ci = find_client(Registry, Head(hb.actions).client_id)
    /\ ci # -1
    /\ clients[ci].state = "DISCONNECTED"
    /\ ri = find_room(Registry, clients[ci].current_room)
    /\ ri # -1
    /\ clients[ci].client_id \in {rooms[ri].player1, rooms[ri].player2}

\* C28: when the lost connection of a member of an Active room is handled and
\* the member has not reconnected, the room becomes Paused with the member as
\* its disconnected player and the time of the pause recorded, its board and
\* turn stay as they are, and an opponent that is Connected is sent
\* PlayerDisconnected(room, member) and then GamePaused(room); for a member
\* of a Waiting room the room stays as it is
C28_DisconnectPausesGame ==
    [][\A ci \in CSlots, ri \in RSlots :
          (HandlesDisconnectOf(ci, ri) /\ hb' # hb) =>
             LET who == clients[ci].client_id
                 room == rooms[ri]
                 other == IF room.player1 = who THEN room.player2
                          ELSE room.player1
                 oc == IF other = "" THEN -1 ELSE find_client(Registry, other)
             IN /\ room.state = "ACTIVE" =>
                     /\ rooms'[ri].state = "PAUSED"
                     /\ rooms'[ri].disconnected_player = who
                     /\ rooms'[ri].pause_start_time = now
                     /\ rooms'[ri].game = room.game
                     /\ rooms'[ri].player1 = room.player1
                     /\ rooms'[ri].player2 = room.player2
                     /\ \A j \in RSlots \ {ri} : rooms'[j] = rooms[j]
                     /\ (oc # -1 /\ clients[oc].state = "CONNECTED") =>
                           out' = <<[op |-> OP_PLAYER_DISCONNECTED,
                                     data |-> <<room.name, who>>,
                                     to |-> clients[oc].socket],
                                    [op |-> OP_GAME_PAUSED,
                                     data |-> <<room.name>>,
                                     to |-> clients[oc].socket]>>
                /\ room.state = "WAITING" => rooms' = rooms]_vars

\* the game of a and b in r1 has been paused for a and b has been told
C28_Witness ==
    /\ \E ri \in RSlots :
          /\ rooms[ri].name = "r1"
          /\ rooms[ri].state = "PAUSED"
          /\ rooms[ri].disconnected_player = "a"
          /\ rooms[ri].pause_start_time = now
    /\ \E i \in CSlots : /\ clients[i].client_id = "a"
                         /\ clients[i].state = "DISCONNECTED"
    /\ Len(out) = 2
    /\ out[1].op = OP_PLAYER_DISCONNECTED
    /\ out[1].data = <<"r1", "a">>
    /\ out[2].op = OP_GAME_PAUSED

----------------------------------------------------------------------------
(* The end of a pause                                                      *)

\* the room named r is PAUSED
Paused(r) ==
    \E i \in RSlots : rooms[i].name = r /\ rooms[i].state = "PAUSED"

\* C29: under a fair heartbeat every room that enters Paused eventually
\* leaves it: it is resumed by a reconnect, or finished and destroyed once
\* the disconnect has lasted too long
C29_PauseEnds ==
    \A r \in RoomNames : (Paused(r) /\ ~crashed) ~> (~Paused(r) \/ crashed)

----------------------------------------------------------------------------
(* The life of a room                                                      *)

\* the four values of Room.state
RoomStates == {"WAITING", "ACTIVE", "PAUSED", "FINISHED"}

\* one step takes the slot of a room from old to new along an edge of the
\* life of a room
RoomEdge(old, new) ==
    IF ~RoomInUse(new) THEN TRUE                      \* destroyed, or still free
    ELSE IF ~RoomInUse(old) \/ new.name # old.name
    THEN new.state = "WAITING"                        \* created
    ELSE \/ new.state = old.state
         \/ /\ old.state = "WAITING" /\ new.state = "ACTIVE"
            /\ old.players_count = 1 /\ new.players_count = 2
         \/ old.state = "ACTIVE" /\ new.state = "PAUSED"
         \/ old.state = "PAUSED" /\ new.state = "ACTIVE"
         \/ new.state = "FINISHED"

\* C30: the state of a room changes only along the edges (created) ->
\* Waiting, Waiting -> Active with the second join, Active -> Paused,
\* Paused -> Active, any -> Finished and any -> destroyed; a pause of a room
\* that is not Active and a resume of a room that is not Paused change nothing
C30_RoomStateEdges ==
    /\ [][\A i \in RSlots : RoomEdge(rooms[i], rooms'[i])]_vars
    /\ [](\A i \in RSlots, st \in RoomStates, p \in PlayerNames :
             LET room == [rooms[i] EXCEPT !.state = st] IN
             /\ st # "ACTIVE" => room_pause_game(room, p) = room
             /\ st # "PAUSED" => room_resume_game(room) = room)

\* the game in r1 has been paused and resumed: the room is Active again and
\* the resume has just been announced
C30_Witness ==
    /\ \E i \in RSlots : /\ rooms[i].name = "r1"
                         /\ rooms[i].state = "ACTIVE"
                         /\ rooms[i].players_count = 2
    /\ \E k \in 1..Len(out) : out[k].op = OP_GAME_RESUMED

\* C31: every socket descriptor is closed at most once: a handler thread that
\* can no longer locate a session slot for its socket exits without closing
\* the descriptor that the heartbeat or the malicious-client path has closed
C31_ClosedAtMostOnce == \A k \in Socks : closes[k] <= 1

----------------------------------------------------------------------------
(* protocol.c: the frame as bytes.  A C string is kept as its runs of      *)
(* equal bytes, <<[c |-> "x", n |-> 3]>> for "xxx", with no two            *)
(* neighbouring runs of the same byte, so that equal strings are equal     *)
(* values and a payload of MAX_DATA_LEN bytes is one run.                  *)

MAX_MESSAGE_LEN == 8192
PREFIX_LEN == 6
MAX_DATA_LEN == MAX_MESSAGE_LEN - PREFIX_LEN - 7

Run(c, n) == IF n <= 0 THEN <<>> ELSE <<[c |-> c, n |-> n]>>

\* the concatenation of two strings
Cat(a, b) ==
    IF a = <<>> THEN b
    ELSE IF b = <<>> THEN a
    ELSE IF a[Len(a)].c = b[1].c
    THEN SubSeq(a, 1, Len(a) - 1)
            \o <<[c |-> b[1].c, n |-> a[Len(a)].n + b[1].n]>> \o Tail(b)
    ELSE a \o b

\* the string of a sequence of bytes
RECURSIVE Text(_)
Text(cs) == IF cs = <<>> THEN <<>> ELSE Cat(Run(Head(cs), 1), Text(Tail(cs)))

RECURSIVE strlen(_)
strlen(t) == IF t = <<>> THEN 0 ELSE Head(t).n + strlen(Tail(t))

\* the first n bytes of t, and t without them
RECURSIVE Take(_, _)
Take(t, n) ==
    IF n <= 0 \/ t = <<>> THEN <<>>
    ELSE IF Head(t).n >= n THEN Run(Head(t).c, n)
    ELSE <<Head(t)>> \o Take(Tail(t), n - Head(t).n)

RECURSIVE Drop(_, _)
Drop(t, n) ==
    IF n <= 0 \/ t = <<>> THEN t
    ELSE IF Head(t).n > n THEN <<[c |-> Head(t).c, n |-> Head(t).n - n]>> \o Tail(t)
    ELSE Drop(Tail(t), n - Head(t).n)

\* strchr(t, c) - t, or -1 when c is not in t
RECURSIVE strchr(_, _)
strchr(t, c) ==
    IF t = <<>> THEN -1
    ELSE IF Head(t).c = c THEN 0
    ELSE LET rest == strchr(Tail(t), c) IN
         IF rest = -1 THEN -1 ELSE Head(t).n + rest

DigitChars == <<"0", "1", "2", "3", "4", "5", "6", "7", "8", "9">>

\* isdigit
DigitOf(c) ==
    IF \E d \in 1..10 : DigitChars[d] = c
    THEN (CHOOSE d \in 1..10 : DigitChars[d] = c) - 1
    ELSE -1

\* is_numeric_string over the whole of t
is_numeric_string(t) ==
    t # <<>> /\ \A i \in 1..Len(t) : DigitOf(t[i].c) >= 0

\* atoi of a string of digits
RECURSIVE atoi(_, _)
atoi(t, acc) ==
    IF t = <<>> THEN acc
    ELSE atoi(Drop(t, 1), acc * 10 + DigitOf(Head(t).c))

\* the bytes of printf's %d
RECURSIVE Decimal(_)
Decimal(v) ==
    IF v < 10 THEN <<DigitChars[v + 1]>>
    ELSE Decimal(v \div 10) \o <<DigitChars[(v % 10) + 1]>>

\* the bytes of printf's %0<width>d
ZeroPadded(v, width) ==
    [i \in 1..(width - Len(Decimal(v))) |-> "0"] \o Decimal(v)

PrefixText == Text(<<"D", "E", "N", "T", "C", "P">>)

\* create_message: [r |-> the bytes written or -1, buffer]
create_message(op, data) ==
    LET full == Cat(Cat(PrefixText,
                        Text(<<"|">> \o ZeroPadded(op, 2) \o <<"|">>
                                \o ZeroPadded(strlen(data), 4) \o <<"|">>)),
                    Cat(data, Text(<<"\n">>)))
        written == strlen(full)
    IN IF written >= MAX_MESSAGE_LEN
       THEN [r |-> -1, buffer |-> Take(full, MAX_MESSAGE_LEN - 1)]
       ELSE [r |-> written, buffer |-> full]

Refused(reason) == [r |-> -1, reason |-> reason, op |-> 0, len |-> 0, data |-> <<>>]

\* parse_message on the bytes of one line (the newline taken off)
parse_buffer(buffer) ==
    LET ptr == Drop(buffer, PREFIX_LEN + 1)
        op_len == strchr(ptr, "|")
        op == atoi(Take(ptr, op_len), 0)
        lptr == Drop(ptr, op_len + 1)
        len_len == strchr(lptr, "|")
        len == atoi(Take(lptr, len_len), 0)
        data == Drop(lptr, len_len + 1)
    IN
    IF Take(buffer, PREFIX_LEN) # PrefixText THEN Refused("INVALID_PREFIX")
    ELSE IF Take(Drop(buffer, PREFIX_LEN), 1) # Text(<<"|">>)
    THEN Refused("INVALID_FORMAT")
    ELSE IF op_len = -1 THEN Refused("INVALID_FORMAT")
    ELSE IF op_len <= 0 \/ op_len >= 16 THEN Refused("INVALID_FORMAT")
    ELSE IF ~is_numeric_string(Take(ptr, op_len)) THEN Refused("INVALID_OPCODE")
    ELSE IF ~is_valid_opcode(op) THEN Refused("INVALID_OPCODE")
    ELSE IF len_len = -1 THEN Refused("INVALID_FORMAT")
    ELSE IF len_len <= 0 \/ len_len >= 16 THEN Refused("INVALID_LENGTH")
    ELSE IF ~is_numeric_string(Take(lptr, len_len)) THEN Refused("INVALID_LENGTH")
    ELSE IF len < 0 \/ len > MAX_DATA_LEN - 1 THEN Refused("INVALID_LENGTH")
    ELSE IF strlen(data) > MAX_DATA_LEN - 1 THEN Refused("BUFFER_OVERFLOW")
    ELSE [r |-> 0, reason |-> "", op |-> op, len |-> len, data |-> data]

----------------------------------------------------------------------------
(* The codec on its own: the server frames a message with create_message,  *)
(* or a peer writes a line; client_handler cuts the line at its newline    *)
(* and hands it to parse_message.                                          *)

Edge == 5

\* the closed set of opcodes
ClosedOps == {op \in 0..OP_ERROR : is_valid_opcode(op)}

\* payloads: short ones with the bytes the frame format uses itself, long
\* ones around MAX_DATA_LEN, and one with a newline
DataSamples ==
    {Text(cs) : cs \in {<<>>, <<"a">>, <<"a", ",", "r", "1">>, <<"|">>,
                        <<"a", "|", "b">>, <<"|", "|">>, <<"1", "2">>,
                        <<"0">>, <<"a", "\n", "b">>}}
    \cup {Run("x", n) : n \in (MAX_DATA_LEN - Edge)..(MAX_DATA_LEN + 1)}
    \cup {Cat(Text(<<"a", "|">>), Run("x", MAX_DATA_LEN - Edge))}

\* lines a peer writes
PeerLines ==
    {Text(cs) : cs \in
        {<<"D", "E", "N", "T", "C", "P", "|", "1", "6", "|", "0", "0", "0", "0", "|">>,
         <<"D", "E", "N", "T", "C", "P", "|", "1", "6", "|", "0", "0", "0", "5", "|">>,
         <<"D", "E", "N", "T", "C", "P", "|", "0", "1", "|", "0", "0", "0", "1", "|", "a", "b", "c">>,
         <<"D", "E", "N", "T", "C", "P", "|", "0", "1", "|", "0", "0", "0", "3", "|", "a">>,
         <<"D", "E", "N", "T", "C", "P", "|", "1", "|", "1", "|", "a">>,
         <<"X", "X", "X", "T", "C", "P", "|", "0", "1", "|", "0", "0", "0", "1", "|", "a">>,
         <<"D", "E", "N", "T", "C", "P">>,
         <<"D", "E", "N", "T", "C", "P", "|">>,
         <<"D", "E", "N", "T", "C", "P", "|", "|", "0", "|">>,
         <<"D", "E", "N", "T", "C", "P", "|", "0", "a", "|", "0", "|">>,
         <<"D", "E", "N", "T", "C", "P", "|", "9", "9", "|", "0", "|">>,
         <<"D", "E", "N", "T", "C", "P", "|", "0", "1", "|">>,
         <<"D", "E", "N", "T", "C", "P", "|", "0", "1", "|", "|">>,
         <<"D", "E", "N", "T", "C", "P", "|", "0", "1", "|", "x", "|">>,
         <<"D", "E", "N", "T", "C", "P", "|", "0", "1", "|", "9", "9", "9", "9", "|">>}}
    \cup {Cat(Text(<<"D", "E", "N", "T", "C", "P", "|", "0", "1", "|", "0", "0", "0", "0", "|">>),
              Run("x", MAX_DATA_LEN))}

InitCodec ==
    /\ InitRegistry
    /\ opening = <<>>
    /\ \/ \E op \in ClosedOps, data \in DataSamples :
             wire = [pc |-> "input", from |-> "server", op |-> op,
                     data |-> data, buffer |-> <<>>, msg |-> Refused("")]
       \/ \E line \in PeerLines :
             wire = [pc |-> "sent", from |-> "peer", op |-> 0, data |-> <<>>,
                     buffer |-> Cat(line, Text(<<"\n">>)), msg |-> Refused("")]

\* send_message: the frame is sent when create_message returns its length
CodecEncode ==
    /\ wire.pc = "input"
    /\ wire' = [wire EXCEPT
                  !.pc = IF create_message(wire.op, wire.data).r > 0
                         THEN "sent" ELSE "unsent",
                  !.buffer = create_message(wire.op, wire.data).buffer]
    /\ UNCHANGED <<clients, rooms, client_count, room_count, closes, out, thr,
                   hb, events, now, nextSock, crashed, ev, viol, opening, locks>>

\* client_handler: the bytes up to the first newline are one line
CodecLine ==
    /\ wire.pc = "sent"
    /\ wire' = [wire EXCEPT !.pc = "line",
                            !.buffer = Take(@, strchr(@, "\n"))]
    /\ UNCHANGED <<clients, rooms, client_count, room_count, closes, out, thr,
                   hb, events, now, nextSock, crashed, ev, viol, opening, locks>>

\* client_handler: the line goes through parse_message
CodecDecode ==
    /\ wire.pc = "line"
    /\ wire' = [wire EXCEPT !.pc = "parsed", !.msg = parse_buffer(wire.buffer)]
    /\ UNCHANGED <<clients, rooms, client_count, room_count, closes, out, thr,
                   hb, events, now, nextSock, crashed, ev, viol, opening, locks>>

CodecSpec == InitCodec /\ [][CodecEncode \/ CodecLine \/ CodecDecode]_vars

\* C32: whatever create_message is given from the closed set of opcodes and
\* the payloads without a newline of at most MAX_DATA_LEN bytes, it succeeds,
\* and parse_message on the frame without its newline succeeds and returns
\* the same opcode and the same payload
C32_RoundTrip ==
    (/\ wire.pc # "idle"
     /\ wire.from = "server"
     /\ wire.op \in ClosedOps
     /\ strchr(wire.data, "\n") = -1
     /\ strlen(wire.data) <= MAX_DATA_LEN)
    => /\ wire.pc # "unsent"
       /\ wire.pc = "parsed" => /\ wire.msg.r = 0
                                /\ wire.msg.op = wire.op
                                /\ wire.msg.data = wire.data

\* C33: parse_message refuses a line whose LEN field is not the number of
\* bytes of its DATA field, with the reason DATA_MISMATCH: no message whose
\* len differs from the length of its data comes out of the decoder
C33_LenMismatchRefused ==
    (wire.pc = "parsed" /\ wire.msg.r = 0)
    => wire.msg.len = strlen(wire.msg.data)

\* C34: a LeaveRoom frame, whatever room and player its payload names, leaves
\* every room alone that the sending session is not a member of, leaves the
\* current_room and game_state of the members of such rooms alone, and leaves
\* the sender a member of no live room
C34_LeaveOwnRoomOnly ==
    \A ci \in CSlots, data \in Payloads(OP_LEAVE_ROOM) :
       (/\ clients[ci].active
        /\ clients[ci].socket \in Socks
        /\ closes[clients[ci].socket] = 0
        /\ clients[ci].client_id # ""
        /\ is_operation_allowed(clients[ci].game_state, OP_LEAVE_ROOM)
        /\ ~RoomsMutexHeld)
       => /\ \A i \in RSlots :
               (/\ RoomInUse(rooms[i])
                /\ clients[ci].client_id \notin {rooms[i].player1, rooms[i].player2})
               => /\ handle_leave_room(Registry, ci, data).rooms[i] = rooms[i]
                  /\ \A cj \in CSlots :
                        (/\ clients[cj].active
                         /\ clients[cj].client_id # ""
                         /\ clients[cj].client_id
                               \in {rooms[i].player1, rooms[i].player2})
                        => /\ handle_leave_room(Registry, ci, data)
                                 .clients[cj].current_room = clients[cj].current_room
                           /\ handle_leave_room(Registry, ci, data)
                                 .clients[cj].game_state = clients[cj].game_state
          /\ Scan2(data) = 2
             => \A i \in RSlots :
                   RoomInUse(handle_leave_room(Registry, ci, data).rooms[i])
                   => clients[ci].client_id
                         \notin {handle_leave_room(Registry, ci, data).rooms[i].player1,
                                 handle_leave_room(Registry, ci, data).rooms[i].player2}

\* C35: a Move or MultiMove frame changes the game of a room only when the
\* sending session's own client_id is that game's current_turn and the
\* session's current_room is that room, whatever room and player its payload
\* names
C35_MoveByTurnHolderOnly ==
    \A ci \in CSlots, op \in {OP_MOVE, OP_MULTI_MOVE} :
       (/\ clients[ci].active
        /\ clients[ci].socket \in Socks
        /\ closes[clients[ci].socket] = 0
        /\ is_operation_allowed(clients[ci].game_state, op))
       => \A data \in Payloads(op), i \in RSlots :
             (/\ RoomInUse(rooms[i])
              /\ Dispatch(Registry, ci, clients[ci].socket, op, data).rooms[i].game
                    # rooms[i].game)
             => /\ clients[ci].client_id = rooms[i].game.current_turn
                /\ clients[ci].current_room = rooms[i].name

\* C36: while a room is PAUSED or FINISHED its game does not change: a Move
\* or MultiMove frame for a room that is not ACTIVE leaves the game as it was
C36_NoMoveUnlessActive ==
    \A ci \in CSlots, op \in {OP_MOVE, OP_MULTI_MOVE} :
       (/\ clients[ci].active
        /\ clients[ci].socket \in Socks
        /\ closes[clients[ci].socket] = 0
        /\ is_operation_allowed(clients[ci].game_state, op))
       => \A data \in Payloads(op), i \in RSlots :
             (/\ RoomInUse(rooms[i])
              /\ rooms[i].state \in {"PAUSED", "FINISHED"})
             => Dispatch(Registry, ci, clients[ci].socket, op, data).rooms[i].game
                   = rooms[i].game

\* C37: a MultiMove frame that is answered INVALID_MOVE leaves the game of
\* every room exactly as it was before the frame: no step of the chain stays
\* applied
C37_MultiMoveAtomic ==
    \A ci \in CSlots :
       (/\ clients[ci].active
        /\ clients[ci].socket \in Socks
        /\ closes[clients[ci].socket] = 0
        /\ is_operation_allowed(clients[ci].game_state, OP_MULTI_MOVE))
       => \A data \in Payloads(OP_MULTI_MOVE) :
             (\E k \in 1..Len(handle_multi_move(Registry, ci, data).out) :
                 /\ handle_multi_move(Registry, ci, data).out[k].op = OP_INVALID_MOVE
                 /\ handle_multi_move(Registry, ci, data).out[k].to
                       = clients[ci].socket)
             => \A i \in RSlots :
                   handle_multi_move(Registry, ci, data).rooms[i].game
                      = rooms[i].game

\* C38: in every reachable state, each non-empty player slot of a live room
\* names an active session whose current_room is the room, and every active
\* session whose current_room is the room is player1 or player2 of it
C38_MembershipConsistent ==
    \A i \in RSlots :
       RoomInUse(rooms[i])
       => /\ \A p \in {rooms[i].player1, rooms[i].player2} \ {""} :
                \E cj \in CSlots : /\ clients[cj].active
                                   /\ clients[cj].client_id = p
                                   /\ clients[cj].current_room = rooms[i].name
          /\ \A cj \in CSlots :
                (clients[cj].active /\ clients[cj].current_room = rooms[i].name)
                => clients[cj].client_id \in {rooms[i].player1, rooms[i].player2}

\* C39: in every reachable state an active, logged-in session whose
\* connection state is CONNECTED is IN_ROOM_WAITING or IN_GAME exactly when
\* its current_room is not empty
C39_InRoomIffCurrentRoom ==
    \A ci \in CSlots :
       (/\ clients[ci].active
        /\ clients[ci].logged_in
        /\ clients[ci].state = "CONNECTED")
       => (clients[ci].game_state \in {"IN_ROOM_WAITING", "IN_GAME"}
             <=> clients[ci].current_room # "")

\* C40: in every state in which no thread holds or waits for a registry lock,
\* client_count is the number of active session slots and room_count is the
\* number of live rooms
C40_CountsMatchRegistries ==
    (/\ hb.pc # "deadlocked"
     /\ \A k \in Socks : thr[k].pc # "blocked")
    => /\ client_count = Cardinality({i \in CSlots : clients[i].active})
       /\ room_count = Cardinality({i \in RSlots : RoomInUse(rooms[i])})

====
